---- MODULE Spec2Model ----
(***************************************************************************)
(* Issue analysis and remote-session orchestration engine.                 *)
(*                                                                         *)
(* IssueScoper (src/issue_scoper.py) and IssueResolver                     *)
(* (src/issue_resolver.py) fetch an issue, create a remote session, poll   *)
(* it under a time budget and decode what the session returns.             *)
(*                                                                         *)
(* Conventions                                                             *)
(*   - Python str is a TLA+ string; `k in s`, len, slicing and lower() are *)
(*     computed on the characters.                                         *)
(*   - Python float with one decimal is an integer number of tenths        *)
(*     (7.0 is 70, 8.5 is 85).                                             *)
(*   - A JSON value is a tagged record: JNum, JStr, JNull, JBool, JList,   *)
(*     JObj, and JAbsent for a key that the enclosing object lacks.        *)
(*   - A Python value returned by a call is a tagged record: NoneV,        *)
(*     an Analysis, a ResolutionResult, or Raised(exception).              *)
(***************************************************************************)
EXTENDS Integers, Sequences, FiniteSets, TLC

(***************************************************************************)
(* Bounds of the model.                                                    *)
(***************************************************************************)
\* seconds the status requests of one call may take in all
MaxDelay == 1

(***************************************************************************)
(* JSON values.                                                            *)
(***************************************************************************)
JNum(n) == [t |-> "num", n |-> n]
JStr(s) == [t |-> "str", s |-> s]
JBool(b) == [t |-> "bool", b |-> b]
JList(l) == [t |-> "list", l |-> l]
JObj(f) == [t |-> "obj", f |-> f]
JNull == [t |-> "null"]
JAbsent == [t |-> "absent"]

\* dict.get(key, default): the default only replaces a key that is absent
DictGet(d, k, default) == IF d[k].t = "absent" THEN default ELSE d[k]

\* Python truth value of a JSON value
Truthy(v) ==
    CASE v.t = "num" -> v.n # 0
      [] v.t = "str" -> v.s # ""
      [] v.t = "bool" -> v.b
      [] v.t = "list" -> Len(v.l) > 0
      [] v.t = "obj" -> \E k \in DOMAIN v.f : v.f[k].t # "absent"
      [] OTHER -> FALSE

(***************************************************************************)
(* Python values.                                                          *)
(***************************************************************************)
NoneV == [tag |-> "None"]
Pending == [tag |-> "pending"]
Raised(exc) == [tag |-> "raised", exc |-> exc]

(***************************************************************************)
(* Strings.                                                                *)
(***************************************************************************)
\* k in t
Contains(t, k) ==
    \E i \in 1..(Len(t) - Len(k) + 1) : SubSeq(t, i, i + Len(k) - 1) = k

\* any(word in text for word in words)
ContainsAny(text, words) == \E w \in words : Contains(text, w)

UpperChars == <<"A", "B", "C", "D", "E", "F", "G", "H", "I", "J", "K", "L", "M",
                "N", "O", "P", "Q", "R", "S", "T", "U", "V", "W", "X", "Y", "Z">>
LowerChars == <<"a", "b", "c", "d", "e", "f", "g", "h", "i", "j", "k", "l", "m",
                "n", "o", "p", "q", "r", "s", "t", "u", "v", "w", "x", "y", "z">>

UpperToLower ==
    [A |-> "a", B |-> "b", C |-> "c", D |-> "d", E |-> "e", F |-> "f", G |-> "g",
     H |-> "h", I |-> "i", J |-> "j", K |-> "k", L |-> "l", M |-> "m", N |-> "n",
     O |-> "o", P |-> "p", Q |-> "q", R |-> "r", S |-> "s", T |-> "t", U |-> "u",
     V |-> "v", W |-> "w", X |-> "x", Y |-> "y", Z |-> "z"]

LowerChar(c) == IF c \in DOMAIN UpperToLower THEN UpperToLower[c] ELSE c

\* str.lower()
RECURSIVE Lower(_)
Lower(s) ==
    IF Len(s) = 0 THEN s
    ELSE IF Len(s) = 1 THEN LowerChar(s)
    ELSE Lower(SubSeq(s, 1, Len(s) \div 2)) \o Lower(SubSeq(s, Len(s) \div 2 + 1, Len(s)))

\* sep.join(parts)
RECURSIVE Join(_, _)
Join(parts, sep) ==
    IF Len(parts) = 0 THEN ""
    ELSE IF Len(parts) = 1 THEN parts[1]
    ELSE parts[1] \o sep \o Join(Tail(parts), sep)

\* s repeated n times
RECURSIVE Rep(_, _)
Rep(s, n) ==
    IF n = 0 THEN ""
    ELSE IF n = 1 THEN s
    ELSE Rep(s, n \div 2) \o Rep(s, n - n \div 2)

\* seq[:n]
Take(seq, n) == SubSeq(seq, 1, IF Len(seq) < n THEN Len(seq) ELSE n)

Min(a, b) == IF a < b THEN a ELSE b
Max(a, b) == IF a > b THEN a ELSE b

(***************************************************************************)
(* Heuristic classifier: IssueScoper._perform_analysis and its helpers.    *)
(* An issue (issue_data) is a record                                       *)
(*   [number, title, body, labels, comment_details]                        *)
(* with body a JStr or JNull, labels the sequence of label names and       *)
(* comment_details a sequence of [login, body] records.                    *)
(***************************************************************************)
\* IssueCategory values
IssueCategory == {"bug", "feature", "documentation", "enhancement", "question",
                  "maintenance", "security", "performance", "unknown"}

\* ComplexityLevel names, in the order of their values 1..5
ComplexityNames == <<"TRIVIAL", "SIMPLE", "MODERATE", "COMPLEX", "VERY_COMPLEX">>
ComplexityLevel == {ComplexityNames[i] : i \in 1..5}
ComplexityValue(name) == CHOOSE i \in 1..5 : ComplexityNames[i] = name

\* issue_data.get('body', '') or ''
BodyOf(issue_data) == IF issue_data.body.t = "str" THEN issue_data.body.s ELSE ""

\* the keys of label_categories in insertion order; each maps to the
\* category of the same name
label_categories == <<"bug", "feature", "enhancement", "documentation",
                      "question", "security", "performance">>

\* the inner loop keeping the last keyword contained in the label
LabelKeyword_last_match(label) ==
    LET hits == {i \in 1..Len(label_categories) :
                    Contains(Lower(label), label_categories[i])}
    IN IF hits = {} THEN ""
       ELSE label_categories[CHOOSE i \in hits : \A j \in hits : i >= j]

\* inner loop of the label scan: first keyword contained in the label
LabelKeyword(label) ==
    LET hits == {i \in 1..Len(label_categories) :
                    Contains(Lower(label), label_categories[i])}
    IN IF hits = {} THEN ""
       ELSE label_categories[CHOOSE i \in hits : \A j \in hits : i <= j]

\* the text scan testing the question words before the documentation words
categorize_issue_question_first(title, body, labels) ==
    LET text == Lower(title \o " " \o body)
        hits == {i \in 1..Len(labels) : LabelKeyword(labels[i]) # ""}
    IN IF hits # {}
       THEN LabelKeyword(labels[CHOOSE i \in hits : \A j \in hits : i <= j])
       ELSE IF ContainsAny(text, {"bug", "error", "crash", "broken", "fail", "issue"})
       THEN "bug"
       ELSE IF ContainsAny(text, {"feature", "add", "implement", "new"})
       THEN "feature"
       ELSE IF ContainsAny(text, {"improve", "enhance", "better", "optimize"})
       THEN "enhancement"
       ELSE IF ContainsAny(text, {"question", "how", "why", "what", "?"})
       THEN "question"
       ELSE IF ContainsAny(text, {"document", "readme", "docs", "guide"})
       THEN "documentation"
       ELSE IF ContainsAny(text, {"security", "vulnerability", "exploit"})
       THEN "security"
       ELSE IF ContainsAny(text, {"performance", "slow", "speed", "optimize"})
       THEN "performance"
       ELSE "unknown"

categorize_issue(title, body, labels) ==
    LET text == Lower(title \o " " \o body)
        hits == {i \in 1..Len(labels) : LabelKeyword(labels[i]) # ""}
    IN IF hits # {}
       THEN LabelKeyword(labels[CHOOSE i \in hits : \A j \in hits : i <= j])
       ELSE IF ContainsAny(text, {"bug", "error", "crash", "broken", "fail", "issue"})
       THEN "bug"
       ELSE IF ContainsAny(text, {"feature", "add", "implement", "new"})
       THEN "feature"
       ELSE IF ContainsAny(text, {"improve", "enhance", "better", "optimize"})
       THEN "enhancement"
       ELSE IF ContainsAny(text, {"document", "readme", "docs", "guide"})
       THEN "documentation"
       ELSE IF ContainsAny(text, {"question", "how", "why", "what", "?"})
       THEN "question"
       ELSE IF ContainsAny(text, {"security", "vulnerability", "exploit"})
       THEN "security"
       ELSE IF ContainsAny(text, {"performance", "slow", "speed", "optimize"})
       THEN "performance"
       ELSE "unknown"

complex_keywords == {"architecture", "refactor", "breaking change", "api change",
                     "database", "migration", "performance", "security",
                     "integration", "compatibility", "cross-platform"}
complex_labels == {"breaking-change", "architecture", "refactor", "major"}

complexity_score(title, body, labels, comments) ==
    LET text == Lower(title \o " " \o body)
    IN (IF Len(body) > 1000 THEN 1 ELSE 0)
       + (IF Len(comments) > 10 THEN 1 ELSE 0)
       + Cardinality({k \in complex_keywords : Contains(text, k)})
       + 2 * Cardinality({i \in 1..Len(labels) :
                             ContainsAny(Lower(labels[i]), complex_labels)})

\* the threshold chain with `<` for `<=`
complexity_of_score_exclusive(score) ==
    IF score < 1 THEN "TRIVIAL"
    ELSE IF score < 2 THEN "SIMPLE"
    ELSE IF score < 4 THEN "MODERATE"
    ELSE IF score < 6 THEN "COMPLEX"
    ELSE "VERY_COMPLEX"

\* the threshold chain at the end of _assess_complexity
complexity_of_score(score) ==
    IF score <= 1 THEN "TRIVIAL"
    ELSE IF score <= 2 THEN "SIMPLE"
    ELSE IF score <= 4 THEN "MODERATE"
    ELSE IF score <= 6 THEN "COMPLEX"
    ELSE "VERY_COMPLEX"

assess_complexity(title, body, labels, comments) ==
    complexity_of_score(complexity_score(title, body, labels, comments))

\* the category table with the enhancement entry equal to the feature entry
category_adjustments_enhancement_as_feature(category) ==
    CASE category = "bug" -> 5
      [] category = "documentation" -> 10
      [] category = "feature" -> -5
      [] category = "enhancement" -> -5
      [] category = "question" -> 15
      [] category = "security" -> -10
      [] category = "unknown" -> -15
      [] OTHER -> 0

\* category_adjustments.get(category, 0), in tenths
category_adjustments(category) ==
    CASE category = "bug" -> 5
      [] category = "documentation" -> 10
      [] category = "feature" -> -5
      [] category = "enhancement" -> -3
      [] category = "question" -> 15
      [] category = "security" -> -10
      [] category = "unknown" -> -15
      [] OTHER -> 0

\* the complexity table with a very_complex entry of -7.5
complexity_adjustments_steeper(complexity) ==
    CASE complexity = "TRIVIAL" -> 20
      [] complexity = "SIMPLE" -> 10
      [] complexity = "MODERATE" -> 0
      [] complexity = "COMPLEX" -> -15
      [] complexity = "VERY_COMPLEX" -> -75
      [] OTHER -> 0

\* complexity_adjustments.get(complexity, 0), in tenths
complexity_adjustments(complexity) ==
    CASE complexity = "TRIVIAL" -> 20
      [] complexity = "SIMPLE" -> 10
      [] complexity = "MODERATE" -> 0
      [] complexity = "COMPLEX" -> -15
      [] complexity = "VERY_COMPLEX" -> -30
      [] OTHER -> 0

\* base_score before the final clamp, in tenths
confidence_sum(body, comments, category, complexity) ==
    70 + category_adjustments(category) + complexity_adjustments(complexity)
       + (IF Len(body) > 200 THEN 5 ELSE 0)
       - (IF Len(body) < 50 THEN 10 ELSE 0)
       - (IF Len(comments) > 5 THEN 3 ELSE 0)
       + (IF Contains(Lower(body), "steps to reproduce") \/ Contains(Lower(body), "reproduce")
          THEN 8 ELSE 0)
       + (IF ContainsAny(Lower(body), {"error", "exception", "stack trace"}) THEN 5 ELSE 0)

\* max(1.0, min(10.0, round(base_score, 1))), in tenths
clamp_confidence(tenths) == Max(10, Min(100, tenths))

calculate_confidence_score(title, body, labels, comments, category, complexity) ==
    clamp_confidence(confidence_sum(body, comments, category, complexity))

base_hours(complexity) ==
    CASE complexity = "TRIVIAL" -> 1
      [] complexity = "SIMPLE" -> 3
      [] complexity = "MODERATE" -> 8
      [] complexity = "COMPLEX" -> 20
      [] complexity = "VERY_COMPLEX" -> 40
      [] OTHER -> 8

\* round(hours * m) in place of int(hours * m)
TruncMul_rounded(hours, num) == (hours * num + 5) \div 10

\* int(hours * m) for a multiplier m = num/10 and hours >= 0
TruncMul(hours, num) == (hours * num) \div 10

estimate_effort(complexity, category, comment_count) ==
    LET hours0 == base_hours(complexity)
        hours1 == IF category = "documentation" THEN Max(1, hours0 \div 2)
                  ELSE IF category = "security" THEN TruncMul(hours0, 15)
                  ELSE IF category = "feature" THEN TruncMul(hours0, 12)
                  ELSE hours0
    IN IF comment_count > 10 THEN TruncMul(hours1, 13) ELSE hours1

\* a sequence without the entries whose flag is FALSE
RECURSIVE Select(_)
Select(pairs) ==
    IF Len(pairs) = 0 THEN << >>
    ELSE (IF pairs[1][1] THEN <<pairs[1][2]>> ELSE << >>) \o Select(Tail(pairs))

identify_key_factors(title, body, labels) ==
    LET text == Lower(title \o " " \o body)
    IN Select(<<
        <<ContainsAny(text, {"api", "breaking", "compatibility"}), "API/Compatibility concerns">>,
        <<ContainsAny(text, {"performance", "slow", "memory"}), "Performance implications">>,
        <<ContainsAny(text, {"security", "vulnerability"}), "Security considerations">>,
        <<ContainsAny(text, {"test", "testing", "coverage"}), "Testing requirements">>,
        <<Contains(text, "breaking"), "Breaking change">>,
        <<\E i \in 1..Len(labels) : Lower(labels[i]) \in {"good first issue", "help wanted"},
          "Community-friendly">> >>)

\* f"{body} {' '.join(comment.get('body', '') for comment in comments[:3])}"
ScanText(body, comments) ==
    LET first == Take(comments, 3)
    IN body \o " " \o Join([i \in 1..Len(first) |-> first[i].body], " ")

identify_blockers(body, comments) ==
    LET text == Lower(ScanText(body, comments))
    IN Select(<<
        <<Contains(text, "blocked") \/ Contains(text, "blocker"), "Explicitly marked as blocked">>,
        <<Contains(text, "depends on") \/ Contains(text, "dependency"), "Has dependencies">>,
        <<Contains(text, "breaking change"), "Breaking change requires careful planning">>,
        <<Contains(text, "need more info") \/ Contains(text, "more information"),
          "Insufficient information">> >>)

Digits == {"0", "1", "2", "3", "4", "5", "6", "7", "8", "9"}
CharAt(s, i) == SubSeq(s, i, i)

\* re.findall(r'#(\d+)', text): the digit runs that follow a '#', in order
IssueRefs(text) ==
    LET starts == {i \in 1..(Len(text) - 1) :
                      CharAt(text, i) = "#" /\ CharAt(text, i + 1) \in Digits}
        RunEnd(i) == CHOOSE j \in (i + 1)..Len(text) :
                        /\ \A k \in (i + 1)..j : CharAt(text, k) \in Digits
                        /\ (j = Len(text) \/ CharAt(text, j + 1) \notin Digits)
        RECURSIVE InOrder(_)
        InOrder(S) ==
            IF S = {} THEN << >>
            ELSE LET m == CHOOSE i \in S : \A j \in S : i <= j
                 IN <<SubSeq(text, m + 1, RunEnd(m))>> \o InOrder(S \ {m})
    IN InOrder(starts)

identify_dependencies(body, comments) ==
    LET text == ScanText(body, comments)
        refs == Take(IssueRefs(text), 3)
    IN [i \in 1..Len(refs) |-> "Issue #" \o refs[i]]
       \o (IF Contains(Lower(text), "depends on") THEN <<"Has explicit dependencies">> ELSE << >>)

generate_reasoning(category, complexity, confidence_score, key_factors, blockers) ==
    Join(<<"Categorized as " \o category \o " with " \o Lower(complexity) \o " complexity.">>
         \o <<IF confidence_score >= 80
              THEN "High confidence due to clear description and straightforward resolution path."
              ELSE IF confidence_score >= 60
              THEN "Moderate confidence with some uncertainty factors."
              ELSE "Lower confidence due to complexity or unclear requirements.">>
         \o (IF Len(key_factors) > 0
             THEN <<"Key considerations: " \o Join(key_factors, ", ") \o ".">> ELSE << >>)
         \o (IF Len(blockers) > 0
             THEN <<"Potential blockers: " \o Join(blockers, ", ") \o ".">> ELSE << >>),
         " ")

\* IssueAnalysis(...); the list fields and the reasoning hold whatever Python
\* value was stored, as a JSON value (a list is JList, None is JNull)
Analysis(number, title, category, complexity, confidence, effort, factors, blockers, deps, reasoning) ==
    [tag |-> "Analysis", issue_number |-> number, title |-> title,
     category |-> category, complexity |-> complexity,
     confidence_score |-> confidence, estimated_effort_hours |-> effort,
     key_factors |-> factors, blockers |-> blockers, dependencies |-> deps,
     reasoning |-> reasoning]

perform_analysis(issue_data) ==
    LET title == issue_data.title
        body == BodyOf(issue_data)
        labels == issue_data.labels
        comments == issue_data.comment_details
        category == categorize_issue(title, body, labels)
        complexity == assess_complexity(title, body, labels, comments)
        confidence == calculate_confidence_score(title, body, labels, comments,
                                                 category, complexity)
        key_factors == identify_key_factors(title, body, labels)
        blockers == identify_blockers(body, comments)
    IN Analysis(issue_data.number, title, category, complexity, confidence,
                estimate_effort(complexity, category, Len(comments)),
                JList(key_factors), JList(blockers),
                JList(identify_dependencies(body, comments)),
                JStr(generate_reasoning(category, complexity, confidence,
                                        key_factors, blockers)))

(***************************************************************************)
(* format_analysis (issue_scoper.py): the text rendered for an Analysis.   *)
(* The emoji and the bullet of this function are stored in the file as     *)
(* the characters their UTF-8 bytes give when read in another encoding;    *)
(* each such run of characters is written as one token in angle brackets,  *)
(* named after the sign it was meant to be.  None of them is the emoji or  *)
(* the bullet itself.                                                      *)
(***************************************************************************)
Garbled ==
    [green |-> "<garbled green circle>", yellow |-> "<garbled yellow circle>",
     red |-> "<garbled red circle>", chart |-> "<garbled chart>",
     magnifier |-> "<garbled magnifier>", warning |-> "<garbled warning>",
     link |-> "<garbled link>", thought |-> "<garbled thought>",
     bullet |-> "<garbled bullet>"]

DigitChars == <<"0", "1", "2", "3", "4", "5", "6", "7", "8", "9">>

\* str(n) of a non-negative int
RECURSIVE NatToStr(_)
NatToStr(n) ==
    IF n < 10 THEN DigitChars[n + 1] ELSE NatToStr(n \div 10) \o DigitChars[(n % 10) + 1]

\* str(x) of a float held as a number of tenths
FloatToStr(tenths) ==
    IF tenths < 0 THEN "-" \o NatToStr((0 - tenths) \div 10) \o "." \o NatToStr((0 - tenths) % 10)
    ELSE NatToStr(tenths \div 10) \o "." \o NatToStr(tenths % 10)

IsLetter(c) == \E i \in 1..26 : c = LowerChars[i] \/ c = UpperChars[i]
UpperChar(c) ==
    IF \E i \in 1..26 : c = LowerChars[i]
    THEN UpperChars[CHOOSE i \in 1..26 : c = LowerChars[i]]
    ELSE c

\* str.title(): a letter is upper case when no letter precedes it, else lower
RECURSIVE TitleFrom(_, _)
TitleFrom(s, i) ==
    IF i > Len(s) THEN ""
    ELSE (IF i > 1 /\ IsLetter(CharAt(s, i - 1))
          THEN LowerChar(CharAt(s, i)) ELSE UpperChar(CharAt(s, i)))
         \o TitleFrom(s, i + 1)
Title(s) == TitleFrom(s, 1)

\* chr(10).join(f'   <bullet> {x}' for x in entries) if entries else the sentinel
format_entries(entries) ==
    IF Truthy(entries)
    THEN Join([i \in 1..Len(entries.l) |-> "   " \o Garbled.bullet \o " " \o entries.l[i]],
              "\n")
    ELSE "   " \o Garbled.bullet \o " None identified"

confidence_emoji(confidence_score) ==
    IF confidence_score >= 70 THEN Garbled.green
    ELSE IF confidence_score >= 50 THEN Garbled.yellow
    ELSE Garbled.red

format_analysis(analysis) ==
    "\n" \o confidence_emoji(analysis.confidence_score)
    \o " Issue #" \o NatToStr(analysis.issue_number) \o ": " \o analysis.title \o "\n"
    \o "\n"
    \o Garbled.chart \o " Analysis Results:\n"
    \o "   Category: " \o Title(analysis.category) \o "\n"
    \o "   Complexity: " \o Title(analysis.complexity)
    \o " (" \o NatToStr(ComplexityValue(analysis.complexity)) \o "/5)\n"
    \o "   Confidence Score: " \o FloatToStr(analysis.confidence_score) \o "/10\n"
    \o "   Estimated Effort: " \o NatToStr(analysis.estimated_effort_hours) \o " hours\n"
    \o "\n"
    \o Garbled.magnifier \o " Key Factors:\n"
    \o "   " \o format_entries(analysis.key_factors) \o "\n"
    \o "\n"
    \o Garbled.warning \o "  Potential Blockers:\n"
    \o "   " \o format_entries(analysis.blockers) \o "\n"
    \o "\n"
    \o Garbled.link \o " Dependencies:\n"
    \o "   " \o format_entries(analysis.dependencies) \o "\n"
    \o "\n"
    \o Garbled.thought \o " Reasoning:\n"
    \o "   " \o analysis.reasoning.s \o "\n"

(***************************************************************************)
(* Number conversions: float(x) and int(x) on a JSON value.                *)
(* A numeric string is modelled in the forms "D+" and "D+.D"; the model    *)
(* draws no other numeric spelling.                                        *)
(***************************************************************************)
IsDigits(s) == Len(s) > 0 /\ \A i \in 1..Len(s) : CharAt(s, i) \in Digits
DigitVal(c) == CHOOSE d \in 0..9 : <<"0", "1", "2", "3", "4", "5", "6", "7", "8", "9">>[d + 1] = c

RECURSIVE StrToNat(_)
StrToNat(s) ==
    IF Len(s) = 0 THEN 0
    ELSE 10 * StrToNat(SubSeq(s, 1, Len(s) - 1)) + DigitVal(CharAt(s, Len(s)))

Ok(n) == [ok |-> TRUE, n |-> n, exc |-> ""]
Err(exc) == [ok |-> FALSE, n |-> 0, exc |-> exc]

\* float(s) for a str, in tenths
FloatOfStr(s) ==
    IF IsDigits(s) THEN Ok(10 * StrToNat(s))
    ELSE IF /\ Len(s) >= 3
            /\ CharAt(s, Len(s) - 1) = "."
            /\ IsDigits(SubSeq(s, 1, Len(s) - 2))
            /\ CharAt(s, Len(s)) \in Digits
    THEN Ok(10 * StrToNat(SubSeq(s, 1, Len(s) - 2)) + DigitVal(CharAt(s, Len(s))))
    ELSE Err("ValueError")

\* float(v), in tenths
ToFloat(v) ==
    CASE v.t = "num" -> Ok(v.n)
      [] v.t = "bool" -> Ok(IF v.b THEN 10 ELSE 0)
      [] v.t = "str" -> FloatOfStr(v.s)
      [] OTHER -> Err("TypeError")

\* int(v): a number is truncated toward zero
ToInt(v) ==
    CASE v.t = "num" -> Ok(IF v.n >= 0 THEN v.n \div 10 ELSE -((-v.n) \div 10))
      [] v.t = "bool" -> Ok(IF v.b THEN 1 ELSE 0)
      [] v.t = "str" -> IF IsDigits(v.s) THEN Ok(StrToNat(v.s)) ELSE Err("ValueError")
      [] OTHER -> Err("TypeError")

\* a dict lookup map.get(key, default) raises TypeError for an unhashable key
Unhashable(v) == v.t \in {"list", "obj"}

(***************************************************************************)
(* IssueScoper._parse_devin_analysis                                       *)
(***************************************************************************)
\* the decoded analysis object: every key of the schema, JAbsent when missing
AObj(category, complexity, confidence, effort, factors, blockers, deps, reasoning) ==
    JObj([category |-> category, complexity |-> complexity,
          confidence_score |-> confidence, estimated_effort_hours |-> effort,
          key_factors |-> factors, blockers |-> blockers,
          dependencies |-> deps, reasoning |-> reasoning])

EmptyAObj == AObj(JAbsent, JAbsent, JAbsent, JAbsent, JAbsent, JAbsent, JAbsent, JAbsent)

\* json.loads on the documents the model's agent can send: <<text, value>>;
\* every other text the model draws is not valid JSON
JsonDocs == <<
    <<"{}", EmptyAObj>>,
    <<"{\"category\": \"bug\", \"complexity\": \"simple\", \"confidence_score\": 8.5}",
      AObj(JStr("bug"), JStr("simple"), JNum(85), JAbsent, JAbsent, JAbsent, JAbsent, JAbsent)>>,
    <<"{\"category\": \"chore\", \"complexity\": \"epic\", \"estimated_effort_hours\": \"4\"}",
      AObj(JStr("chore"), JStr("epic"), JAbsent, JStr("4"), JAbsent, JAbsent, JAbsent, JAbsent)>>,
    <<"{\"confidence_score\": 15}",
      AObj(JAbsent, JAbsent, JNum(150), JAbsent, JAbsent, JAbsent, JAbsent, JAbsent)>>,
    <<"{\"confidence_score\": 0.2, \"key_factors\": [\"api\"]}",
      AObj(JAbsent, JAbsent, JNum(2), JAbsent, JList(<<"api">>), JAbsent, JAbsent, JAbsent)>>,
    <<"{\"confidence_score\": \"high\"}",
      AObj(JAbsent, JAbsent, JStr("high"), JAbsent, JAbsent, JAbsent, JAbsent, JAbsent)>>,
    <<"{\"confidence_score\": null}",
      AObj(JAbsent, JAbsent, JNull, JAbsent, JAbsent, JAbsent, JAbsent, JAbsent)>>,
    <<"{\"category\": null, \"complexity\": 3, \"blockers\": null}",
      AObj(JNull, JNum(30), JAbsent, JAbsent, JAbsent, JNull, JAbsent, JAbsent)>>
  >>

JsonLoads(text) ==
    IF \E i \in 1..Len(JsonDocs) : JsonDocs[i][1] = text
    THEN [ok |-> TRUE, value |-> JsonDocs[CHOOSE i \in 1..Len(JsonDocs) : JsonDocs[i][1] = text][2]]
    ELSE [ok |-> FALSE, value |-> JNull]

\* 1-based position of the first / last occurrence of the character, 0 if none
FindFirst(text, c) ==
    LET P == {i \in 1..Len(text) : CharAt(text, i) = c}
    IN IF P = {} THEN 0 ELSE CHOOSE i \in P : \A j \in P : i <= j
FindLast(text, c) ==
    LET P == {i \in 1..Len(text) : CharAt(text, i) = c}
    IN IF P = {} THEN 0 ELSE CHOOSE i \in P : \A j \in P : i >= j

\* category_map.get(analysis_data.get('category', 'unknown'), IssueCategory.UNKNOWN)
decode_category(v) ==
    LET key == IF v.t = "absent" THEN JStr("unknown") ELSE v
    IN IF key.t = "str" /\ key.s \in IssueCategory THEN key.s ELSE "unknown"

\* complexity_map.get(analysis_data.get('complexity', 'moderate'), ComplexityLevel.MODERATE)
decode_complexity(v) ==
    LET key == IF v.t = "absent" THEN JStr("moderate") ELSE v
    IN IF key.t = "str" /\ \E i \in 1..5 : Lower(ComplexityNames[i]) = key.s
       THEN ComplexityNames[CHOOSE i \in 1..5 : Lower(ComplexityNames[i]) = key.s]
       ELSE "MODERATE"

\* the body of the try block once json.loads has returned analysis_data
analysis_from_data(d, issue_data) ==
    LET conf == ToFloat(DictGet(d, "confidence_score", JNum(50)))
        eff == ToInt(DictGet(d, "estimated_effort_hours", JNum(80)))
    IN IF Unhashable(d.category) \/ Unhashable(d.complexity) THEN Raised("TypeError")
       ELSE IF ~conf.ok THEN Raised(conf.exc)
       ELSE IF ~eff.ok THEN Raised(eff.exc)
       ELSE Analysis(issue_data.number, issue_data.title,
                     decode_category(d.category), decode_complexity(d.complexity),
                     conf.n, eff.n,
                     DictGet(d, "key_factors", JList(<< >>)),
                     DictGet(d, "blockers", JList(<< >>)),
                     DictGet(d, "dependencies", JList(<< >>)),
                     DictGet(d, "reasoning", JStr("Analysis completed via Devin API")))

\* except (json.JSONDecodeError, ValueError, KeyError)
analysis_caught == {"JSONDecodeError", "ValueError", "KeyError"}

\* the try block of _parse_devin_analysis; analysis_text is what the loop
\* returned: a list or a dict has no find and raises AttributeError
try_parse_devin_analysis(analysis_text, issue_data) ==
    LET first == FindFirst(analysis_text.s, "{")
        last == FindLast(analysis_text.s, "}")
        loaded == JsonLoads(SubSeq(analysis_text.s, first, last))
    IN IF analysis_text.t # "str" THEN Raised("AttributeError")
       ELSE IF first = 0 \/ last = 0 THEN Raised("ValueError")
       ELSE IF ~loaded.ok THEN Raised("JSONDecodeError")
       ELSE analysis_from_data(loaded.value.f, issue_data)

\* TRUE when the except clause of _parse_devin_analysis handles the outcome
analysis_falls_back(tried) == tried.tag = "raised" /\ tried.exc \in analysis_caught

parse_devin_analysis(analysis_text, issue_data) ==
    LET tried == try_parse_devin_analysis(analysis_text, issue_data)
    IN IF analysis_falls_back(tried) THEN perform_analysis(issue_data) ELSE tried

(***************************************************************************)
(* IssueResolver._parse_devin_resolution                                   *)
(***************************************************************************)
ExecutionStatus == {"success", "partial_success", "failed", "blocked", "in_progress"}

\* a resolution payload object: every key of the schema, JAbsent when missing
RObj(status, score, plan, changes, pr_created, pr_url, blockers, summary) ==
    JObj([execution_status |-> status, success_score |-> score,
          action_plan |-> plan, changes_made |-> changes,
          pr_created |-> pr_created, pr_url |-> pr_url,
          blockers_encountered |-> blockers, summary |-> summary])

\* status_map.get(resolution_data.get('execution_status', 'failed'), ExecutionStatus.FAILED)
decode_execution_status(v) ==
    LET key == IF v.t = "absent" THEN JStr("failed") ELSE v
    IN IF key.t = "str" /\ key.s \in ExecutionStatus THEN key.s ELSE "failed"

\* except (ValueError, KeyError)
resolution_caught == {"ValueError", "KeyError"}

resolution_from_data(resolution_data, issue_data, session_id) ==
    LET d == resolution_data.f
        score == ToFloat(DictGet(d, "success_score", JNum(50)))
    IN IF ~Truthy(resolution_data) THEN Raised("ValueError")
       ELSE IF resolution_data.t # "obj" THEN Raised("AttributeError")
       ELSE IF Unhashable(d.execution_status) THEN Raised("TypeError")
       ELSE IF ~score.ok THEN Raised(score.exc)
       ELSE [tag |-> "ResolutionResult",
             issue_number |-> issue_data.number, title |-> issue_data.title,
             execution_status |-> decode_execution_status(d.execution_status),
             success_score |-> score.n,
             action_plan |-> DictGet(d, "action_plan", JList(<< >>)),
             changes_made |-> DictGet(d, "changes_made", JList(<< >>)),
             pr_created |-> Truthy(DictGet(d, "pr_created", JBool(FALSE))),
             pr_url |-> DictGet(d, "pr_url", JNull),
             blockers_encountered |-> DictGet(d, "blockers_encountered", JList(<< >>)),
             session_url |-> "https://app.devin.ai/sessions/" \o session_id,
             summary |-> DictGet(d, "summary", JStr("Resolution completed via Devin API"))]

parse_devin_resolution(resolution_data, issue_data, session_id) ==
    LET tried == resolution_from_data(resolution_data, issue_data, session_id)
    IN IF tried.tag = "raised" /\ tried.exc \in resolution_caught THEN NoneV ELSE tried

(***************************************************************************)
(* IssueResolver.parse_analysis_comment: the regular expressions, matched *)
(* as re.search matches them.                                              *)
(* TLA+ strings are ASCII: each emoji of the source is written as a token  *)
(* in angle brackets, and the token stands for that one character.         *)
(***************************************************************************)
EmojiRobot == "<robot>"
EmojiMagnifier == "<magnifier>"
EmojiWarning == "<warning>"
EmojiLink == "<link>"
EmojiThought == "<thought>"
Bullet == "<bullet>"

\* the ASCII characters that \s and str.strip() take for whitespace: space,
\* \t, \n, \r, form feed, and, written as the characters themselves, vertical
\* tab (0x0b) and the separators 0x1c to 0x1f
Whitespace == {" ", "\n", "\t", "\r", "\f", "", "", "", "", ""}
WordChars ==
    {LowerChars[i] : i \in 1..26} \cup {UpperChars[i] : i \in 1..26} \cup Digits \cup {"_"}

MinOf(S) == CHOOSE i \in S : \A j \in S : i <= j
MaxOf(S) == CHOOSE i \in S : \A j \in S : i >= j

\* positions where k occurs in text
Occ(text, k) ==
    {i \in 1..(Len(text) - Len(k) + 1) : SubSeq(text, i, i + Len(k) - 1) = k}

StartsWith(text, i, k) ==
    i >= 1 /\ i + Len(k) - 1 <= Len(text) /\ SubSeq(text, i, i + Len(k) - 1) = k

\* the tokens and the number of characters (code points) of the source text
\* each stands for: an emoji of issue_resolver.py is one character, the
\* warning sign is two (the sign and a variation selector), and the garbled
\* runs of format_analysis are three, four or six characters long
Signs ==
    <<[token |-> EmojiRobot, points |-> 1], [token |-> EmojiMagnifier, points |-> 1],
      [token |-> EmojiWarning, points |-> 2], [token |-> EmojiLink, points |-> 1],
      [token |-> EmojiThought, points |-> 1], [token |-> Bullet, points |-> 1],
      [token |-> Garbled.green, points |-> 4], [token |-> Garbled.yellow, points |-> 4],
      [token |-> Garbled.red, points |-> 4], [token |-> Garbled.chart, points |-> 4],
      [token |-> Garbled.magnifier, points |-> 4], [token |-> Garbled.warning, points |-> 6],
      [token |-> Garbled.link, points |-> 4], [token |-> Garbled.thought, points |-> 4],
      [token |-> Garbled.bullet, points |-> 3]>>

\* s[:n], counted in characters of the source text: a token counts for the
\* characters it stands for, and a cut that falls inside a token leaves the
\* token marked with the number of its characters that are kept, as in
\* "<warning|1>" for the warning sign without its variation selector
RECURSIVE Cut(_, _)
Cut(s, n) ==
    IF n <= 0 \/ Len(s) = 0 THEN ""
    ELSE LET hits == {i \in 1..Len(Signs) : StartsWith(s, 1, Signs[i].token)}
         IN IF hits = {}
            THEN LET marks == {p \in 2..Len(s) : CharAt(s, p) = "<"}
                     run == IF marks = {} THEN Len(s) ELSE MinOf(marks) - 1
                     k == Min(run, n)
                 IN SubSeq(s, 1, k) \o Cut(SubSeq(s, k + 1, Len(s)), n - k)
            ELSE LET sign == Signs[CHOOSE i \in hits : TRUE]
                 IN IF sign.points <= n
                    THEN sign.token
                         \o Cut(SubSeq(s, Len(sign.token) + 1, Len(s)), n - sign.points)
                    ELSE SubSeq(sign.token, 1, Len(sign.token) - 1)
                         \o "|" \o NatToStr(n) \o ">"

\* last position of the longest run of characters of S that starts at i
\* (i - 1 when the run is empty)
RunEnd(text, i, S) ==
    MaxOf({j \in (i - 1)..Len(text) : \A k \in i..j : CharAt(text, k) \in S})

\* the same for characters outside S
RunEndNot(text, i, S) ==
    MaxOf({j \in (i - 1)..Len(text) : \A k \in i..j : CharAt(text, k) \notin S})

\* str.strip()
Strip(s) ==
    LET P == {i \in 1..Len(s) : CharAt(s, i) \notin Whitespace}
    IN IF P = {} THEN "" ELSE SubSeq(s, MinOf(P), MaxOf(P))

\* s.lstrip('<bullet> '): leading bullets and spaces are removed
RECURSIVE LStripBullet(_)
LStripBullet(s) ==
    IF StartsWith(s, 1, " ") THEN LStripBullet(SubSeq(s, 2, Len(s)))
    ELSE IF StartsWith(s, 1, Bullet) THEN LStripBullet(SubSeq(s, Len(Bullet) + 1, Len(s)))
    ELSE s

\* s.split('\n') from position i on
RECURSIVE SplitLines(_, _)
SplitLines(s, i) ==
    LET nl == {j \in i..Len(s) : CharAt(s, j) = "\n"}
    IN IF nl = {} THEN <<SubSeq(s, i, Len(s))>>
       ELSE <<SubSeq(s, i, MinOf(nl) - 1)>> \o SplitLines(s, MinOf(nl) + 1)

NoMatch == [ok |-> FALSE, g1 |-> "", g2 |-> ""]
Match(g1, g2) == [ok |-> TRUE, g1 |-> g1, g2 |-> g2]

\* the leftmost anchor position at which the rest of the pattern matches
FirstMatch(text, anchor, At(_)) ==
    LET hits == {p \in Occ(text, anchor) : At(p).ok}
    IN IF hits = {} THEN NoMatch ELSE At(MinOf(hits))

\* Category:\s*([^\n]+)
category_match(text) ==
    LET At(p) ==
            LET a == p + Len("Category:")
                w == RunEnd(text, a, Whitespace)
                back == {j \in a..w : CharAt(text, j) # "\n"}
                q == IF w + 1 <= Len(text) THEN w + 1
                     ELSE IF back # {} THEN MaxOf(back) ELSE 0
            IN IF q = 0 THEN NoMatch
               ELSE Match(SubSeq(text, q, RunEndNot(text, q, {"\n"})), "")
    IN FirstMatch(text, "Category:", At)

\* Complexity:\s*(\w+)\s*\((\d+)/5\)
complexity_match(text) ==
    LET At(p) ==
            LET a == RunEnd(text, p + Len("Complexity:"), Whitespace) + 1
                e == RunEnd(text, a, WordChars)
                b == RunEnd(text, e + 1, Whitespace) + 1
                d == RunEnd(text, b + 1, Digits)
            IN IF e >= a /\ StartsWith(text, b, "(") /\ d >= b + 1 /\ StartsWith(text, d + 1, "/5)")
               THEN Match(SubSeq(text, a, e), SubSeq(text, b + 1, d))
               ELSE NoMatch
    IN FirstMatch(text, "Complexity:", At)

\* Confidence Score:\s*([\d.]+)/10
confidence_match(text) ==
    LET At(p) ==
            LET a == RunEnd(text, p + Len("Confidence Score:"), Whitespace) + 1
                e == RunEnd(text, a, Digits \cup {"."})
            IN IF e >= a /\ StartsWith(text, e + 1, "/10")
               THEN Match(SubSeq(text, a, e), "") ELSE NoMatch
    IN FirstMatch(text, "Confidence Score:", At)

\* Estimated Effort:\s*(\d+)\s*hours?
effort_match(text) ==
    LET At(p) ==
            LET a == RunEnd(text, p + Len("Estimated Effort:"), Whitespace) + 1
                e == RunEnd(text, a, Digits)
                b == RunEnd(text, e + 1, Whitespace) + 1
            IN IF e >= a /\ StartsWith(text, b, "hour")
               THEN Match(SubSeq(text, a, e), "") ELSE NoMatch
    IN FirstMatch(text, "Estimated Effort:", At)

\* the lazy group (.*?) of (.*?)(?=stops|$) from position a: it runs up to the
\* first stop marker, or to the end of the text, or to the newline that ends
\* the text ($ without re.MULTILINE also matches just before it)
UpToStop(text, a, stops) ==
    LET marks == UNION {{i \in Occ(text, k) : i >= a} : k \in stops}
        final == {i \in {Len(text)} : i >= a /\ CharAt(text, i) = "\n"}
        ends == marks \cup final \cup {Len(text) + 1}
    IN SubSeq(text, a, MinOf(ends) - 1)

\* <anchor>(.*?)(?=stops|$) with re.DOTALL
section_match(text, anchor, stops) ==
    LET At(p) == Match(UpToStop(text, p + Len(anchor), stops), "")
    IN FirstMatch(text, anchor, At)

\* <warning>.*?Potential Blockers:(.*?)(?=<link>|<thought>|$) with re.DOTALL
blockers_match(text) ==
    LET At(p) ==
            LET heads == {i \in Occ(text, "Potential Blockers:") : i >= p + Len(EmojiWarning)}
            IN IF heads = {} THEN NoMatch
               ELSE Match(UpToStop(text, MinOf(heads) + Len("Potential Blockers:"),
                                   {EmojiLink, EmojiThought}), "")
    IN FirstMatch(text, EmojiWarning, At)

\* [line.strip().lstrip('<bullet> ').strip() for line in section.split('\n')
\*  if line.strip() and '<bullet>' in line and 'None identified' not in line]
RECURSIVE bullet_entries(_)
bullet_entries(lines) ==
    IF Len(lines) = 0 THEN << >>
    ELSE (IF /\ Strip(lines[1]) # ""
             /\ Contains(lines[1], Bullet)
             /\ ~Contains(lines[1], "None identified")
          THEN <<Strip(LStripBullet(Strip(lines[1])))>> ELSE << >>)
         \o bullet_entries(Tail(lines))

section_entries(m) == IF m.ok THEN bullet_entries(SplitLines(m.g1, 1)) ELSE << >>

\* <thought> Reasoning:\s*(.*?)(?=---|$) with re.DOTALL
reasoning_match(text) ==
    LET At(p) ==
            LET a == RunEnd(text, p + Len(EmojiThought \o " Reasoning:"), Whitespace) + 1
            IN Match(UpToStop(text, a, {"---"}), "")
    IN FirstMatch(text, EmojiThought \o " Reasoning:", At)

\* float(s) for a match of [\d.]+ : digits with at most one point; digits
\* after the first decimal must be zeros to be a number of tenths
FloatOfDecimal(s) ==
    LET dots == Occ(s, ".")
        dot == IF dots = {} THEN Len(s) + 1 ELSE MinOf(dots)
        int_part == SubSeq(s, 1, dot - 1)
        frac_part == SubSeq(s, dot + 1, Len(s))
    IN IF Cardinality(dots) > 1 \/ Len(int_part) + Len(frac_part) = 0
       THEN Err("ValueError")
       ELSE Ok(10 * StrToNat(int_part)
               + (IF Len(frac_part) = 0 THEN 0 ELSE DigitVal(CharAt(frac_part, 1))))

parse_analysis_comment(comment_body) ==
    LET category == category_match(comment_body)
        complexity == complexity_match(comment_body)
        confidence == confidence_match(comment_body)
        effort == effort_match(comment_body)
        reasoning == reasoning_match(comment_body)
        score == IF confidence.ok THEN FloatOfDecimal(confidence.g1) ELSE Ok(50)
    IN IF ~score.ok THEN NoneV
       ELSE [tag |-> "dict",
             category |-> IF category.ok THEN Lower(Strip(category.g1)) ELSE "unknown",
             complexity |-> IF complexity.ok
                            THEN [level |-> Lower(Strip(complexity.g1)),
                                  value |-> StrToNat(complexity.g2)]
                            ELSE [level |-> "moderate", value |-> 3],
             confidence_score |-> score.n,
             estimated_effort_hours |-> IF effort.ok THEN StrToNat(effort.g1) ELSE 8,
             key_factors |-> section_entries(section_match(comment_body,
                                 EmojiMagnifier \o " Key Factors:",
                                 {EmojiWarning, EmojiLink, EmojiThought})),
             blockers |-> section_entries(blockers_match(comment_body)),
             dependencies |-> section_entries(section_match(comment_body,
                                 EmojiLink \o " Dependencies:", {EmojiThought})),
             reasoning |-> IF reasoning.ok THEN Strip(reasoning.g1) ELSE ""]

AnalysisMarker == EmojiRobot \o " Devin Analysis Results"

\* scope_issue_cli.py, the branch taken when an analysis was found in the
\* comments: the IssueAnalysis built from the decoded dictionary
existing_analysis_obj(existing_analysis, issue_number) ==
    LET category == IF existing_analysis.category \in IssueCategory
                    THEN existing_analysis.category ELSE "unknown"
        complexity_level == existing_analysis.complexity.level
        complexity == IF complexity_level = "trivial" THEN "TRIVIAL"
                      ELSE IF complexity_level = "simple" THEN "SIMPLE"
                      ELSE IF complexity_level = "moderate" THEN "MODERATE"
                      ELSE IF complexity_level = "complex" THEN "COMPLEX"
                      ELSE IF complexity_level = "very complex" THEN "VERY_COMPLEX"
                      ELSE "MODERATE"
    IN Analysis(issue_number, "Issue #" \o NatToStr(issue_number), category, complexity,
                existing_analysis.confidence_score,
                existing_analysis.estimated_effort_hours,
                JList(existing_analysis.key_factors), JList(existing_analysis.blockers),
                JList(existing_analysis.dependencies), JStr(existing_analysis.reasoning))

\* the lookup walking the comments from the oldest one
fetch_devin_analysis_oldest_first(data) ==
    IF data = JNull THEN NoneV
    ELSE LET comments == data.comment_details
             marked == {i \in 1..Len(comments) : Contains(comments[i].body, AnalysisMarker)}
         IN IF marked = {} THEN NoneV
            ELSE parse_analysis_comment(comments[MinOf(marked)].body)

\* IssueResolver.fetch_devin_analysis_from_comments once the issue is fetched
fetch_devin_analysis_from_comments(data) ==
    IF data = JNull THEN NoneV
    ELSE LET comments == data.comment_details
             marked == {i \in 1..Len(comments) : Contains(comments[i].body, AnalysisMarker)}
         IN IF marked = {} THEN NoneV
            ELSE parse_analysis_comment(comments[MaxOf(marked)].body)

(***************************************************************************)
(* The remote ends: what the issue source and the session endpoint can     *)
(* answer.  A response is [err, code, body]: err is a transport exception, *)
(* code the HTTP status, body the decoded JSON object.                     *)
(***************************************************************************)
TransportError == [err |-> TRUE, code |-> 0, body |-> JNull]
HttpError(code) == [err |-> FALSE, code |-> code, body |-> JNull]
HttpOk(body) == [err |-> FALSE, code |-> 200, body |-> body]

\* requests raises RequestException, or raise_for_status() does
RequestFails(resp) == resp.err \/ resp.code >= 400

Comment(login, body) == [login |-> login, body |-> body]

\* a comment that carries a posted analysis
PostedAnalysis ==
    "## " \o AnalysisMarker \o "\n\nAnalysis Results:\n"
    \o "   Category: Bug\n   Complexity: Very_Complex (5/5)\n"
    \o "   Confidence Score: 8.5/10\n   Estimated Effort: 40 hours\n\n"
    \o EmojiMagnifier \o " Key Factors:\n      " \o Bullet \o " Testing requirements\n\n"
    \o EmojiWarning \o "  Potential Blockers:\n      " \o Bullet \o " None identified\n\n"
    \o EmojiLink \o " Dependencies:\n      " \o Bullet \o " Issue #7\n\n"
    \o EmojiThought \o " Reasoning:\n   Categorized as bug.\n"

\* a posted analysis that somebody edited by hand
EditedAnalysis ==
    AnalysisMarker \o "\n   Category: Tech Debt\n   Complexity: Huge (9/5)\n"
    \o "   Confidence Score: 11/10\n   Estimated Effort: 2 hours\n"

\* the issues the issue source can hold
Issues == {
    [number |-> 1, title |-> "Crash on start", body |-> JNull,
     labels |-> <<"bug">>, comment_details |-> << >>],
    [number |-> 2, title |-> "Slow search",
     body |-> JStr("Search got slow, see #12. Steps to reproduce: type a word."),
     labels |-> <<"Needs-Triage", "docs">>,
     comment_details |-> <<Comment("ann", "Blocked by the API change in #7"),
                           Comment("bot", PostedAnalysis),
                           Comment("bot", EditedAnalysis)>>] }

CreateResponses ==
    {TransportError, HttpError(401)}
    \cup {HttpOk([session_id |-> v]) :
            v \in {JAbsent, JNull, JStr(""), JStr("devin-1")}}

EmptyRObj == RObj(JAbsent, JAbsent, JAbsent, JAbsent, JAbsent, JAbsent, JAbsent, JAbsent)

FullRObj ==
    RObj(JStr("success"), JNum(85), JList(<<"fix">>), JList(<<"a.py">>),
         JBool(TRUE), JStr("https://github.com/o/r/pull/1"), JList(<< >>), JStr("done"))

\* values of the structured_output key of a resolution session
ResolverOutputs == {
    JAbsent, JNull, EmptyRObj,
    FullRObj,
    RObj(JStr("finished"), JNum(120), JAbsent, JAbsent, JAbsent, JNull, JNull, JAbsent),
    RObj(JAbsent, JStr("high"), JAbsent, JAbsent, JAbsent, JAbsent, JAbsent, JAbsent),
    RObj(JStr("blocked"), JNull, JAbsent, JAbsent, JAbsent, JAbsent, JAbsent, JAbsent),
    JList(<<"done">>) }

ResolverStatusEnums ==
    {JAbsent, JStr("working"), JStr("blocked"), JStr("finished"), JStr("expired"), JStr("failed")}

\* every payload comes with a finished status, the empty one with a blocked
\* status too; every status comes with no payload and with a full one
ResolverStatusResponses ==
    {TransportError, HttpError(404),
     HttpOk([status_enum |-> JStr("blocked"), structured_output |-> EmptyRObj])}
    \cup {HttpOk([status_enum |-> JStr("finished"), structured_output |-> o]) :
            o \in ResolverOutputs}
    \cup {HttpOk([status_enum |-> e, structured_output |-> o]) :
            e \in ResolverStatusEnums, o \in {JAbsent, FullRObj}}

\* latest_status_contents of an analysis session: <<agent_status, enum>>
ScoperStatuses == {
    JAbsent,
    JNull,
    JObj([agent_status |-> JAbsent, enum |-> JAbsent]),
    JObj([agent_status |-> JStr("working"), enum |-> JStr("working")]),
    JObj([agent_status |-> JStr("blocked"), enum |-> JStr("blocked")]),
    JObj([agent_status |-> JStr("blocked"), enum |-> JStr("expired")]),
    JObj([agent_status |-> JStr("finished"), enum |-> JStr("finished")]),
    JObj([agent_status |-> JStr("finished"), enum |-> JStr("expired")]),
    JObj([agent_status |-> JAbsent, enum |-> JStr("expired")]),
    JObj([agent_status |-> JStr("working"), enum |-> JStr("failed")]) }

\* latest_message_contents of an analysis session
ScoperMessages ==
    {JAbsent,
     JNull,
     JObj([type |-> JStr("devin_message"), message |-> JNull]),
     JObj([type |-> JStr("devin_message"), message |-> JNum(7)]),
     JObj([type |-> JStr("devin_message"), message |-> JList(<<JStr("{"), JStr("}")>>)]),
     JObj([type |-> JStr("devin_message"), message |-> JList(<<JStr("x")>>)]),
     JObj([type |-> JStr("devin_message"), message |-> JObj([category |-> JStr("bug")])]),
     JObj([type |-> JStr("user_message"), message |-> JNull]),
     JObj([type |-> JAbsent, message |-> JStr("{}")]),
     JObj([type |-> JStr("user_message"), message |-> JStr("{}")]),
     JObj([type |-> JStr("devin_message"), message |-> JAbsent]),
     JObj([type |-> JStr("devin_message"), message |-> JStr("Analysis done.")]),
     JObj([type |-> JStr("devin_message"), message |-> JStr("} oops {")]),
     JObj([type |-> JStr("devin_message"), message |-> JStr("see {category: bug}")])}
    \cup {JObj([type |-> JStr("devin_message"),
                message |-> JStr("Result: " \o JsonDocs[i][1] \o " Done.")]) :
            i \in 1..Len(JsonDocs)}

\* every message comes with a finished status; the other statuses come with
\* two of the messages
ScoperStatusResponses ==
    {TransportError, HttpError(404)}
    \cup {HttpOk([latest_status_contents |-> st, latest_message_contents |-> m]) :
            st \in {x \in ScoperStatuses : x.t = "obj" /\ x.f.agent_status = JStr("finished")},
            m \in ScoperMessages}
    \cup {HttpOk([latest_status_contents |-> st, latest_message_contents |-> m]) :
            st \in ScoperStatuses,
            m \in {JAbsent, JObj([type |-> JStr("devin_message"), message |-> JStr("{}")])}}

(***************************************************************************)
(* Session creation and the polling loops.                                 *)
(***************************************************************************)
\* _create_devin_session: the session id, or None (JNull)
\* create_devin_session with a placeholder id where the response has none
create_devin_session_placeholder(resp) ==
    IF RequestFails(resp) THEN JNull ELSE DictGet(resp.body, "session_id", JStr("unknown"))

\* create_devin_session handing out an id of its own for the one answered
create_devin_session_own_id(resp) ==
    IF RequestFails(resp) THEN JNull
    ELSE IF Truthy(DictGet(resp.body, "session_id", JNull)) THEN JStr("devin-0")
    ELSE DictGet(resp.body, "session_id", JNull)

create_devin_session(resp) ==
    IF RequestFails(resp) THEN JNull ELSE DictGet(resp.body, "session_id", JNull)

\* default max_wait_time and the sleep of each loop, in seconds
ScoperMaxWait == 300
ScoperSleep == 10
ResolverMaxWait == 1800
ResolverSleep == 30

max_wait_time(k) == IF k = "analyze" THEN ScoperMaxWait ELSE ResolverMaxWait

\* the sleeps at half their length
sleep_interval_halved(k) == (IF k = "analyze" THEN ScoperSleep ELSE ResolverSleep) \div 2

sleep_interval(k) == IF k = "analyze" THEN ScoperSleep ELSE ResolverSleep

\* the loop test with <= for <
loop_condition_inclusive(elapsed, limit) == elapsed <= limit

\* while time.time() - start_time < max_wait_time
loop_condition(elapsed, limit) == elapsed < limit

\* what one iteration of a loop does with a decoded status response:
\* return a value (JNull is None) or sleep and poll again
Return(value, why, msgs) == [act |-> "return", value |-> value, why |-> why, msgs |-> msgs]
SleepOn == [act |-> "sleep", value |-> JNull, why |-> "", msgs |-> {}]
\* an exception that the loop does not catch
Raise(exc) == [act |-> "raise", value |-> JNull, why |-> exc, msgs |-> {}]

\* the resolution loop without `if status_enum == 'finished': return None`
resolver_poll_finished_retries(session_data) ==
    LET status_enum == DictGet(session_data, "status_enum", JStr(""))
        structured_output == DictGet(session_data, "structured_output", EmptyRObj)
    IN IF status_enum \in {JStr("blocked"), JStr("finished")}
       THEN IF Truthy(structured_output)
            THEN Return(structured_output, "payload", {"found structured_output"})
            ELSE [SleepOn EXCEPT !.msgs = {"no structured_output"}]
       ELSE IF status_enum \in {JStr("expired")}
       THEN Return(JNull, "expired", {"session ended"})
       ELSE SleepOn

\* IssueResolver._wait_for_session_completion, the body of the try block
resolver_poll(session_data) ==
    LET status_enum == DictGet(session_data, "status_enum", JStr(""))
        structured_output == DictGet(session_data, "structured_output", EmptyRObj)
    IN IF status_enum \in {JStr("blocked"), JStr("finished")}
       THEN IF Truthy(structured_output)
            THEN Return(structured_output, "payload", {"found structured_output"})
            ELSE IF status_enum = JStr("finished")
            THEN Return(JNull, "no_payload", {"no structured_output"})
            ELSE [SleepOn EXCEPT !.msgs = {"no structured_output"}]
       ELSE IF status_enum \in {JStr("expired")}
       THEN Return(JNull, "expired", {"session ended"})
       ELSE SleepOn

EmptyStatus == JObj([agent_status |-> JAbsent, enum |-> JAbsent])
EmptyMessage == JObj([type |-> JAbsent, message |-> JAbsent])

\* `item in content` is answered by a string (a substring test), a list (an
\* element equal to item) and a dict (a key equal to item); None, a number
\* and a bool are not iterable and the test raises TypeError
Iterable(content) == content.t \in {"str", "list", "obj"}

In(item, content) ==
    CASE content.t = "str" -> Contains(content.s, item)
      [] content.t = "list" -> \E i \in 1..Len(content.l) : content.l[i] = JStr(item)
      [] content.t = "obj" -> item \in DOMAIN content.f /\ content.f[item].t # "absent"

\* the analysis loop with `agent_status in ['blocked', 'finished']`
scoper_poll_blocked_ends(session_data) ==
    LET latest_status == DictGet(session_data, "latest_status_contents", EmptyStatus)
    IN IF latest_status.t # "obj" THEN Raise("AttributeError")
       ELSE
       LET agent_status == DictGet(latest_status.f, "agent_status", JStr(""))
           latest_message == DictGet(session_data, "latest_message_contents", EmptyMessage)
       IN IF agent_status \in {JStr("blocked"), JStr("finished")}
          THEN IF latest_message.t # "obj" THEN Raise("AttributeError")
               ELSE IF latest_message.f.type = JStr("devin_message")
               THEN LET content == DictGet(latest_message.f, "message", JStr(""))
                    IN IF ~Iterable(content) THEN Raise("TypeError")
                       ELSE IF In("{", content) /\ In("}", content)
                       THEN Return(content, "payload", {})
                       ELSE Return(JNull, "no_payload", {})
               ELSE Return(JNull, "no_payload", {})
          ELSE IF latest_status.f.enum \in {JStr("expired")}
          THEN Return(JNull, "expired", {"session ended"})
          ELSE SleepOn

\* the analysis loop without the `elif latest_status.get('enum') in ['expired']` branch
scoper_poll_expired_retries(session_data) ==
    LET latest_status == DictGet(session_data, "latest_status_contents", EmptyStatus)
    IN IF latest_status.t # "obj" THEN Raise("AttributeError")
       ELSE
       LET agent_status == DictGet(latest_status.f, "agent_status", JStr(""))
           latest_message == DictGet(session_data, "latest_message_contents", EmptyMessage)
       IN IF agent_status = JStr("finished")
          THEN IF latest_message.t # "obj" THEN Raise("AttributeError")
               ELSE IF latest_message.f.type = JStr("devin_message")
               THEN LET content == DictGet(latest_message.f, "message", JStr(""))
                    IN IF ~Iterable(content) THEN Raise("TypeError")
                       ELSE IF In("{", content) /\ In("}", content)
                       THEN Return(content, "payload", {})
                       ELSE Return(JNull, "no_payload", {})
               ELSE Return(JNull, "no_payload", {})
          ELSE SleepOn

\* IssueScoper._wait_for_session_completion, the body of the try block: a
\* null where a dict is expected raises AttributeError and a message that is
\* null, a number or a bool raises TypeError, which `except RequestException`
\* does not catch; a list or a dict that holds both braces is returned
scoper_poll(session_data) ==
    LET latest_status == DictGet(session_data, "latest_status_contents", EmptyStatus)
    IN IF latest_status.t # "obj" THEN Raise("AttributeError")
       ELSE
       LET agent_status == DictGet(latest_status.f, "agent_status", JStr(""))
           latest_message == DictGet(session_data, "latest_message_contents", EmptyMessage)
       IN IF agent_status = JStr("finished")
          THEN IF latest_message.t # "obj" THEN Raise("AttributeError")
               ELSE IF latest_message.f.type = JStr("devin_message")
               THEN LET content == DictGet(latest_message.f, "message", JStr(""))
                    IN IF ~Iterable(content) THEN Raise("TypeError")
                       ELSE IF In("{", content) /\ In("}", content)
                       THEN Return(content, "payload", {})
                       ELSE Return(JNull, "no_payload", {})
               ELSE Return(JNull, "no_payload", {})
          ELSE IF latest_status.f.enum \in {JStr("expired")}
          THEN Return(JNull, "expired", {"session ended"})
          ELSE SleepOn

\* the except clause with a sleep and another round for `return None`
request_exception_retries == [SleepOn EXCEPT !.msgs = {"error checking status"}]

\* except requests.exceptions.RequestException: print(...); return None
request_exception == Return(JNull, "transport", {"error checking status"})

poll(k, session_data) ==
    IF k = "analyze" THEN scoper_poll(session_data) ELSE resolver_poll(session_data)

StatusResponses(k) ==
    IF k = "analyze" THEN ScoperStatusResponses ELSE ResolverStatusResponses

(***************************************************************************)
(* State.                                                                  *)
(***************************************************************************)
VARIABLES
    kind,             \* "analyze": IssueScoper.analyze_issue, "resolve": IssueResolver.resolve_issue
    entry,            \* "api": the method is called directly, "cli": through resolve_issue_cli.py
    devin_token,      \* self.devin_token is set (truthy)
    remote_issue,     \* the issue as the issue source holds it
    analysis_data,    \* the analysis_data argument of resolve_issue
    pc,               \* position of the call
    fetch_for,        \* who called _fetch_issue_details: "call" or "lookup"
    issue_data,       \* what _fetch_issue_details returned (JNull is None)
    session_id,       \* the id _create_devin_session returned
    clock,            \* time.time()
    start_time,       \* start_time of the polling loop
    wait_result,      \* what _wait_for_session_completion returned
    result,           \* what the call returned to its caller
    log,              \* messages printed during the call
    github_requests,  \* requests sent to the issue source during the call
    create_requests,  \* POST /sessions requests sent during the call
    status_requests,  \* GET /session/{id} requests sent during the call
    status_targets,   \* session ids the status requests were sent for
    checked_elapsed,  \* elapsed time read by the loop check that let the last status request through
    created,          \* the answer to the POST /sessions request
    comments_answer,  \* the answer to the comments request, until the fetched issue is used
    observed,         \* what the status request of the current loop iteration was answered
    delay,            \* seconds the status requests of the call have taken
    heuristic_calls,  \* invocations of _perform_analysis during the call
    cause,            \* why the call ended
    command,          \* how the command line ended, while it has not: Running
    given,            \* a function of the classifier or of the rendering applied on its own: its name and arguments
    computed          \* what that function returned

config == <<kind, entry, devin_token, remote_issue>>
outcome == <<pc, result, log, heuristic_calls, cause, command>>
traffic == <<github_requests, create_requests, status_requests, status_targets,
             checked_elapsed, delay, created, observed>>
session == <<session_id, clock, start_time, wait_result>>
bench == <<given, computed>>
orchestration == <<config, analysis_data, fetch_for, issue_data, session, outcome, traffic,
                  comments_answer>>
vars == <<orchestration, bench>>

(***************************************************************************)
(* What the remote end answered, recorded for the properties: the answer   *)
(* to the session creation, and the status, enum and payload of the last   *)
(* status answer.                                                          *)
(***************************************************************************)
NoResponse == [err |-> FALSE, code |-> 0, body |-> JNull]
NotObserved == [status |-> "-", enum |-> "-", payload |-> "-"]

StrOr(v, default) == IF v.t = "str" THEN v.s ELSE default

\* the structured_output of a resolution status answer
PayloadClass(v) ==
    CASE v.t = "absent" -> "absent"
      [] v.t = "null" -> "null"
      [] v.t = "obj" /\ \A k \in DOMAIN v.f : v.f[k].t = "absent" -> "empty"
      [] OTHER -> "present"

\* the latest_message_contents of an analysis status answer
MessageClass(v) ==
    CASE v.t = "absent" -> "absent"
      [] v.t = "null" -> "null"
      [] v.f.type # JStr("devin_message") -> "other type"
      [] v.f.message.t = "absent" -> "no text"
      [] v.f.message.t \in {"null", "num", "bool"} -> "not iterable"
      [] v.f.message.t = "str"
         /\ (FindFirst(v.f.message.s, "{") = 0 \/ FindFirst(v.f.message.s, "}") = 0)
           -> "no braces"
      [] v.f.message.t = "list"
         /\ (\A i \in 1..Len(v.f.message.l) : v.f.message.l[i] # JStr("{")
             \/ \A j \in 1..Len(v.f.message.l) : v.f.message.l[j] # JStr("}"))
           -> "no braces"
      [] v.f.message.t = "obj" /\ {"{", "}"} \ DOMAIN v.f.message.f # {} -> "no braces"
      [] OTHER -> "present"

Observe(k, resp) ==
    IF resp.err \/ resp.code >= 400
    THEN [status |-> "request failed", enum |-> "request failed", payload |-> "-"]
    ELSE IF k = "resolve"
    THEN [status |-> StrOr(resp.body.status_enum, ""),
          enum |-> StrOr(resp.body.status_enum, ""),
          payload |-> PayloadClass(resp.body.structured_output)]
    ELSE LET st == resp.body.latest_status_contents
         IN [status |-> IF st.t = "obj" THEN StrOr(st.f.agent_status, "") ELSE "",
             enum |-> IF st.t = "obj" THEN StrOr(st.f.enum, "") ELSE "",
             payload |-> MessageClass(resp.body.latest_message_contents)]

\* analysis_data built by resolve_issue_cli.py when no analysis is found
DefaultAnalysisData ==
    [tag |-> "dict", category |-> "unknown", complexity |-> [level |-> "moderate", value |-> 3],
     confidence_score |-> 50, estimated_effort_hours |-> 8,
     key_factors |-> << >>, blockers |-> << >>, dependencies |-> << >>,
     reasoning |-> "No prior analysis available"]

\* no function is applied on its own during a call
NoInput == [fn |-> "-"]

\* the state of an instance before a call starts
Running == [tag |-> "running"]

NotStarted ==
    /\ pc = "start"
    /\ command = Running
    /\ fetch_for = "call"
    /\ issue_data = JNull
    /\ session_id = ""
    /\ clock = 0
    /\ start_time = 0
    /\ wait_result = JNull
    /\ result = Pending
    /\ log = {}
    /\ github_requests = 0
    /\ create_requests = 0
    /\ status_requests = 0
    /\ status_targets = {}
    /\ checked_elapsed = 0
    /\ created = NoResponse
    /\ comments_answer = NoResponse
    /\ observed = NotObserved
    /\ delay = 0
    /\ heuristic_calls = 0
    /\ cause = ""

Init ==
    /\ kind \in {"analyze", "resolve"}
    /\ entry \in {"api", "cli"}
    /\ kind = "analyze" => entry = "api"
    /\ devin_token \in BOOLEAN
    /\ remote_issue \in Issues
    \* the command line is run on an issue that has comments to look through
    /\ entry = "cli" => remote_issue.comment_details # << >>
    /\ analysis_data = IF kind = "resolve" /\ entry = "api"
                       THEN DefaultAnalysisData ELSE NoneV
    /\ NotStarted
    /\ given = NoInput
    /\ computed = Pending

(***************************************************************************)
(* How a step ends: the call goes on, or it returns.                       *)
(***************************************************************************)
Goto(p, msgs) ==
    /\ pc' = p
    /\ log' = log \cup msgs
    /\ UNCHANGED <<result, heuristic_calls, cause, command>>

Finish(res, why, msgs, heuristics) ==
    /\ pc' = "done"
    /\ result' = res
    /\ log' = log \cup msgs
    /\ heuristic_calls' = heuristic_calls + heuristics
    /\ cause' = why
    \* sys.exit(code) ends the command line
    /\ command' = IF res.tag = "exit" THEN res ELSE command

\* what _analyze_with_devin_api returns when the session gave no result,
\* whatever the reason `why`: return self._perform_analysis(issue_data)
scoper_on_failure(why, data) == perform_analysis(data)

\* _resolve_with_devin_api raising on a timeout instead of returning None
resolver_on_failure_raises_timeout(why, data) ==
    IF why = "timeout" THEN Raised("TimeoutError") ELSE NoneV

\* what _resolve_with_devin_api returns when the session gave no result,
\* whatever the reason `why`: return None
resolver_on_failure(why, data) == NoneV

on_failure(k, why, data) ==
    IF k = "analyze" THEN scoper_on_failure(why, data) ELSE resolver_on_failure(why, data)

\* `if not session_id` / `if not analysis_result`: the orchestrator gives up
GiveUp(data, why, msgs) ==
    LET value == on_failure(kind, why, data)
    IN Finish(value, why, msgs, IF value.tag = "Analysis" THEN 1 ELSE 0)

(***************************************************************************)
(* analyze_issue / resolve_issue                                           *)
(***************************************************************************)
\* the method is entered; its first statement is _fetch_issue_details
ApiCall ==
    /\ pc = "start"
    /\ entry = "api"
    /\ fetch_for' = "call"
    /\ Goto("fetch_issue", {})
    /\ UNCHANGED <<bench, config, comments_answer, analysis_data, issue_data, session, traffic>>

\* resolve_issue_cli.py lines 41-53: the credential is checked before
\* anything is requested
CliCredentialCheck ==
    /\ pc = "start"
    /\ entry = "cli"
    /\ IF devin_token
       THEN /\ fetch_for' = "lookup"
            /\ Goto("fetch_issue", {})
       ELSE /\ fetch_for' = fetch_for
            /\ Finish([tag |-> "exit", code |-> 1], "no_token", {"token required"}, 0)
    /\ UNCHANGED <<bench, config, comments_answer, analysis_data, issue_data, session, traffic>>

\* _fetch_issue_details returned `data` to its caller
FetchReturns(data, msgs) ==
    /\ issue_data' = data
    /\ IF fetch_for = "lookup" THEN Goto("cli_lookup", msgs)
       ELSE IF data = JNull THEN Finish(NoneV, "fetch_failed", msgs, 0)
       ELSE Goto("dispatch", msgs)

\* _fetch_issue_details, the request for the issue
FetchIssue ==
    /\ pc = "fetch_issue"
    /\ github_requests' = github_requests + 1
    /\ \E resp \in {TransportError, HttpError(404), HttpOk(remote_issue)} :
        IF RequestFails(resp)
        THEN FetchReturns(JNull, {"error fetching issue"})
        ELSE /\ Goto("fetch_comments", {})
             /\ UNCHANGED issue_data
    /\ UNCHANGED <<bench, config, comments_answer, analysis_data, fetch_for, session,
                   create_requests, status_requests, status_targets, checked_elapsed,
                   delay, created, observed>>

\* the body of the answer taken as the comments whatever its status
comments_of_unchecked(resp, issue) ==
    IF resp.code = 200 THEN resp.body ELSE <<Comment("", "Server Error")>>

\* comments_response.json() if comments_response.status_code == 200 else []
comments_of(resp, issue) == IF resp.code = 200 THEN resp.body ELSE << >>

\* _fetch_issue_details, the request for the comments
FetchComments ==
    /\ pc = "fetch_comments"
    /\ github_requests' = github_requests + 1
    /\ \E resp \in {TransportError, HttpError(500), HttpOk(remote_issue.comment_details)} :
        /\ comments_answer' = [resp EXCEPT !.body = JNull]
        /\ IF resp.err
           THEN FetchReturns(JNull, {"error fetching issue"})
           ELSE FetchReturns([remote_issue EXCEPT
                                 !.comment_details = comments_of(resp, remote_issue)], {})
    /\ UNCHANGED <<bench, config, analysis_data, fetch_for, session,
                   create_requests, status_requests, status_targets, checked_elapsed,
                   delay, created, observed>>

\* `if self.devin_token:` in analyze_issue and in resolve_issue
Dispatch ==
    /\ pc = "dispatch"
    /\ IF devin_token THEN Goto("create", {})
       ELSE IF kind = "analyze"
       THEN Finish(perform_analysis(issue_data), "no_token", {"no token, keyword analysis"}, 1)
       ELSE Finish(NoneV, "no_token", {"token required"}, 0)
    /\ comments_answer' = NoResponse
    /\ UNCHANGED <<bench, config, analysis_data, fetch_for, issue_data, session, traffic>>

(***************************************************************************)
(* _analyze_with_devin_api / _resolve_with_devin_api                       *)
(***************************************************************************)
\* _create_devin_session and the `if not session_id` that follows it
CreateSession ==
    /\ pc = "create"
    /\ create_requests' = create_requests + 1
    /\ \E resp \in CreateResponses :
        LET sid == create_devin_session(resp)
        IN /\ created' = resp
           /\ IF ~Truthy(sid)
              THEN /\ GiveUp(issue_data, "create_failed",
                             (IF RequestFails(resp) THEN {"error creating session"} ELSE {})
                             \cup {"failed to create session"})
                   /\ UNCHANGED <<session_id, start_time>>
              ELSE /\ session_id' = sid.s
                   /\ start_time' = clock
                   /\ Goto("wait_check", {})
    /\ UNCHANGED <<bench, config, comments_answer, analysis_data, fetch_for, issue_data, clock, wait_result,
                   github_requests, status_requests, status_targets, checked_elapsed,
                   delay, observed>>

\* _wait_for_session_completion returned `value` to the orchestrator
WaitReturns(value, why, msgs) ==
    IF ~Truthy(value)
    THEN /\ GiveUp(issue_data, why, msgs \cup {"failed to get result from session"})
         /\ UNCHANGED wait_result
    ELSE /\ wait_result' = value
         /\ Goto("parse", msgs)

\* the `while` test of _wait_for_session_completion
LoopCheck ==
    /\ pc = "wait_check"
    /\ IF loop_condition(clock - start_time, max_wait_time(kind))
       THEN /\ checked_elapsed' = clock - start_time
            /\ Goto("wait_request", {})
            /\ UNCHANGED wait_result
       ELSE /\ WaitReturns(JNull, "timeout", {"timed out"})
            /\ UNCHANGED checked_elapsed
    /\ UNCHANGED <<bench, config, comments_answer, analysis_data, fetch_for, issue_data, session_id, clock, start_time,
                   github_requests, create_requests, status_requests, status_targets,
                   delay, created, observed>>

\* one iteration of the loop body up to the sleep: the status request and
\* what the loop does with the answer
StatusRequest ==
    /\ pc = "wait_request"
    /\ status_requests' = status_requests + 1
    /\ status_targets' = status_targets \cup {session_id}
    /\ \E latency \in 0..(MaxDelay - delay) :
        /\ clock' = clock + latency
        /\ delay' = delay + latency
    /\ \E resp \in StatusResponses(kind) :
        /\ observed' = Observe(kind, resp)
        /\ LET step == IF RequestFails(resp) THEN request_exception
                        ELSE poll(kind, resp.body)
           IN IF step.act = "return"
              THEN WaitReturns(step.value, step.why, step.msgs)
              ELSE IF step.act = "raise"
              THEN /\ Finish(Raised(step.why), "poll_raised", {}, 0)
                   /\ UNCHANGED wait_result
              ELSE /\ Goto("sleep", step.msgs)
                   /\ UNCHANGED wait_result
    /\ UNCHANGED <<bench, config, comments_answer, analysis_data, fetch_for, issue_data, session_id, start_time,
                   github_requests, create_requests, checked_elapsed, created>>

\* time.sleep(10) / time.sleep(30) at the end of the loop body
Sleep ==
    /\ pc = "sleep"
    /\ clock' = clock + sleep_interval(kind)
    /\ observed' = NotObserved
    /\ Goto("wait_check", {})
    /\ UNCHANGED <<bench, config, comments_answer, analysis_data, fetch_for, issue_data, session_id, start_time,
                   wait_result, github_requests, create_requests, status_requests,
                   status_targets, checked_elapsed, delay, created>>

\* return self._parse_devin_analysis(...) / self._parse_devin_resolution(...)
Parse ==
    /\ pc = "parse"
    /\ IF kind = "analyze"
       THEN LET tried == try_parse_devin_analysis(wait_result, issue_data)
                value == parse_devin_analysis(wait_result, issue_data)
            IN IF analysis_falls_back(tried)
               THEN Finish(value, "decode", {"error parsing analysis"}, 1)
               ELSE Finish(value, IF value.tag = "raised" THEN "decode_raised" ELSE "", {}, 0)
       ELSE LET value == parse_devin_resolution(wait_result, issue_data, session_id)
            IN Finish(value,
                      IF value = NoneV THEN "decode"
                      ELSE IF value.tag = "raised" THEN "decode_raised" ELSE "",
                      IF value = NoneV THEN {"error parsing resolution"} ELSE {}, 0)
    /\ UNCHANGED <<bench, config, comments_answer, analysis_data, fetch_for, issue_data, session, traffic>>

(***************************************************************************)
(* resolve_issue_cli.py                                                    *)
(***************************************************************************)
\* lines 55-64 and 90-95: the analysis is looked up in the comments; when
\* one is found resolve_issue is called with it, otherwise the options are
\* shown and the command waits at the prompt
CliLookup ==
    /\ pc = "cli_lookup"
    /\ LET found == fetch_devin_analysis_from_comments(issue_data)
       IN IF found = NoneV
          THEN /\ Goto("cli_prompt", {"no analysis found"})
               /\ UNCHANGED <<analysis_data, fetch_for>>
          ELSE /\ analysis_data' = found
               /\ fetch_for' = "call"
               /\ Goto("fetch_issue", {"found analysis"})
    /\ comments_answer' = NoResponse
    /\ UNCHANGED <<bench, config, issue_data, session, traffic>>

\* lines 66-95: the prompt is answered; on "2" resolve_issue is called with
\* the basic analysis, on "1" and "3" the command exits with status 0
CliPrompt ==
    /\ pc = "cli_prompt"
    /\ \E choice \in {"1", "2", "3"} :
          IF choice = "2"
          THEN /\ analysis_data' = DefaultAnalysisData
               /\ fetch_for' = "call"
               /\ Goto("fetch_issue", {})
          ELSE /\ Finish([tag |-> "exit", code |-> 0], "cancelled", {}, 0)
               /\ UNCHANGED <<analysis_data, fetch_for>>
    /\ UNCHANGED <<bench, config, comments_answer, issue_data, session, traffic>>

\* lines 97-121: resolve_issue returned to the command line, which exits
\* with status 1 on None and prints the resolution otherwise; an exception
\* raised by resolve_issue leaves the command line as it is
CliReport ==
    /\ pc = "done"
    /\ entry = "cli"
    /\ command = Running
    /\ result.tag \in {"None", "ResolutionResult"}
    /\ IF ~(result.tag = "ResolutionResult")
       THEN /\ command' = [tag |-> "exit", code |-> 1]
            /\ log' = log \cup {"could not resolve issue"}
       ELSE /\ command' = [tag |-> "returned"]
            /\ log' = log \cup {"resolution shown"}
    /\ UNCHANGED <<bench, config, comments_answer, analysis_data, fetch_for, issue_data,
                   session, traffic, pc, result, heuristic_calls, cause>>

Next ==
    \/ ApiCall
    \/ CliCredentialCheck
    \/ FetchIssue
    \/ FetchComments
    \/ CliLookup
    \/ CliPrompt
    \/ Dispatch
    \/ CreateSession
    \/ LoopCheck
    \/ StatusRequest
    \/ Sleep
    \/ Parse
    \/ CliReport

Spec == Init /\ [][Next]_vars

TypeOK ==
    /\ pc \in {"start", "fetch_issue", "fetch_comments", "cli_lookup", "cli_prompt", "dispatch", "create",
               "wait_check", "wait_request", "sleep", "parse", "done"}
    /\ result.tag \in {"pending", "None", "Analysis", "ResolutionResult", "raised", "exit"}
    /\ delay \in 0..MaxDelay
    /\ command \in {Running, [tag |-> "returned"],
                    [tag |-> "exit", code |-> 0], [tag |-> "exit", code |-> 1]}

(***************************************************************************)
(* The prompts sent with a session creation: _create_analysis_prompt       *)
(* (issue_scoper.py) and _create_resolution_prompt (issue_resolver.py).    *)
(* comments is the comment list in fetch order.                            *)
(***************************************************************************)
\* a comment of the prompt builders is a record with the fields login (the
\* login of its user) and body where the fetched comment has them; nulls is
\* there when the fetched comment holds null for some of "user", "login"
\* and "body", and lists these keys
Nulls(comment) == IF "nulls" \in DOMAIN comment THEN comment.nulls ELSE {}

\* comment.get('user', {}).get('login', 'Unknown') as the f-string shows it
login_shown(comment) ==
    IF "login" \in Nulls(comment) THEN "None"
    ELSE IF "login" \in DOMAIN comment THEN comment.login
    ELSE "Unknown"

\* comment.get('body', '')[:200]
body_shown(comment) == Cut(IF "body" \in DOMAIN comment THEN comment.body ELSE "", 200)

\* the exception building the line of the comment raises: None has no get,
\* and None cannot be sliced
line_raises(comment) ==
    IF "user" \in Nulls(comment) THEN Raised("AttributeError")
    ELSE IF "body" \in Nulls(comment) THEN Raised("TypeError")
    ELSE NoneV

\* what building comments_text raises: the exception of the first of
\* comments[:5] whose line cannot be built, None when there is none
comments_raise(comments) ==
    LET bad == {i \in 1..Len(Take(comments, 5)) : line_raises(comments[i]) # NoneV}
    IN IF bad = {} THEN NoneV ELSE line_raises(comments[MinOf(bad)])

\* comments_text listing the last five comments, the latest first
comments_text_newest_first(comments) ==
    LET n == Len(comments)
        shown == IF n < 5 THEN n ELSE 5
    IN IF n = 0 THEN ""
       ELSE "\n\nComments:\n"
            \o Join([i \in 1..shown |->
                        "- " \o login_shown(comments[n + 1 - i]) \o ": "
                        \o body_shown(comments[n + 1 - i]) \o "..."],
                    "\n")

\* comments_text when every line can be built: one line for each of
\* comments[:5], the body cut by [:200]
comments_text(comments) ==
    IF Len(comments) = 0 THEN ""
    ELSE "\n\nComments:\n"
         \o Join([i \in 1..Len(Take(comments, 5)) |->
                     "- " \o login_shown(comments[i]) \o ": "
                     \o body_shown(comments[i]) \o "..."],
                 "\n")

\* what a prompt builder returns
Prompt(text) == [tag |-> "prompt", prompt |-> text]

create_analysis_prompt(title, body, labels, comments, repo_owner, repo_name, issue_number) ==
    LET labels_text == IF Len(labels) > 0 THEN "Labels: " \o Join(labels, ", ")
                       ELSE "Labels: None"
    IN IF comments_raise(comments) # NoneV THEN comments_raise(comments)
       ELSE Prompt(
       "Please analyze this GitHub issue from " \o repo_owner \o "/" \o repo_name
       \o " and provide a structured assessment:\n"
       \o "\n"
       \o "Issue #" \o NatToStr(issue_number) \o ": " \o title \o "\n"
       \o "\n"
       \o labels_text \o "\n"
       \o "\n"
       \o "Description:\n"
       \o Cut(body, 1000) \o "..." \o comments_text(comments) \o "\n"
       \o "\n"
       \o "Please provide your analysis in the following JSON format:\n"
       \o "{\n"
       \o "    \"category\": \"bug|feature|documentation|enhancement|question|maintenance|security|performance|unknown\",\n"
       \o "    \"complexity\": \"trivial|simple|moderate|complex|very_complex\",\n"
       \o "    \"confidence_score\": <float between 1.0 and 10.0>,\n"
       \o "    \"estimated_effort_hours\": <integer>,\n"
       \o "    \"key_factors\": [\"factor1\", \"factor2\", ...],\n"
       \o "    \"blockers\": [\"blocker1\", \"blocker2\", ...],\n"
       \o "    \"dependencies\": [\"dep1\", \"dep2\", ...],\n"
       \o "    \"reasoning\": \"Detailed explanation of your analysis and confidence score\"\n"
       \o "}\n"
       \o "\n"
       \o "Focus on:\n"
       \o "1. Categorizing the issue type accurately\n"
       \o "2. Assessing complexity based on technical requirements\n"
       \o "3. Providing a realistic confidence score for successful resolution\n"
       \o "4. Identifying key factors that affect implementation\n"
       \o "5. Noting any blockers or dependencies\n"
       \o "6. Explaining your reasoning clearly\n"
       \o "\n"
       \o "Be thorough but concise in your analysis.")

\* analysis is the analysis_data argument; it holds every key, so each
\* .get() default is unused
create_resolution_prompt(title, body, labels, comments, repo_owner, repo_name, issue_number, analysis) ==
    LET labels_text == IF Len(labels) > 0 THEN "Labels: " \o Join(labels, ", ")
                       ELSE "Labels: None"
        listed(entries) == IF Len(entries) > 0 THEN Join(entries, ", ") ELSE "None"
        analysis_summary ==
            "\n"
            \o "Previous Analysis Results:\n"
            \o "- Category: " \o analysis.category \o "\n"
            \o "- Complexity: " \o analysis.complexity.level
            \o " (" \o NatToStr(analysis.complexity.value) \o "/5)\n"
            \o "- Confidence Score: " \o FloatToStr(analysis.confidence_score) \o "/10\n"
            \o "- Estimated Effort: " \o NatToStr(analysis.estimated_effort_hours)
            \o " hours\n"
            \o "- Key Factors: " \o listed(analysis.key_factors) \o "\n"
            \o "- Potential Blockers: " \o listed(analysis.blockers) \o "\n"
            \o "- Dependencies: " \o listed(analysis.dependencies) \o "\n"
            \o "- Analysis Reasoning: " \o analysis.reasoning \o "\n"
    IN IF comments_raise(comments) # NoneV THEN comments_raise(comments)
       ELSE Prompt(
       "You are tasked with resolving this GitHub issue from " \o repo_owner \o "/" \o repo_name
       \o ". A previous analysis has been completed and you should use this information"
       \o " to guide your resolution approach.\n"
       \o "\n"
       \o "Issue #" \o NatToStr(issue_number) \o ": " \o title \o "\n"
       \o "\n"
       \o labels_text \o "\n"
       \o "\n"
       \o "Description:\n"
       \o Cut(body, 1000) \o "..." \o comments_text(comments) \o "\n"
       \o "\n"
       \o analysis_summary \o "\n"
       \o "\n"
       \o "Please follow these steps to execute the resolution:\n"
       \o "\n"
       \o "1. **REVIEW THE ANALYSIS**: Use the provided analysis to understand the issue scope and approach\n"
       \o "2. **EXECUTE THE RESOLUTION**: Implement the necessary changes based on the analysis insights\n"
       \o "3. **ADDRESS KEY FACTORS**: Pay special attention to the identified key factors\n"
       \o "4. **HANDLE BLOCKERS**: Work around or resolve any identified blockers\n"
       \o "5. **MANAGE DEPENDENCIES**: Ensure dependencies are properly handled\n"
       \o "6. **CREATE PULL REQUEST**: If code changes were made, create a PR with your changes\n"
       \o "7. **REPORT RESULTS**: Provide a summary of what was accomplished\n"
       \o "\n"
       \o "At the end of your session, please provide a structured summary in this JSON format:\n"
       \o "{\n"
       \o "    \"execution_status\": \"success|partial_success|failed|blocked\",\n"
       \o "    \"success_score\": <float between 1.0 and 10.0>,\n"
       \o "    \"action_plan\": [\"step1\", \"step2\", \"step3\", ...],\n"
       \o "    \"changes_made\": [\"change1\", \"change2\", ...],\n"
       \o "    \"pr_created\": true|false,\n"
       \o "    \"pr_url\": \"https://github.com/owner/repo/pull/123\" or null,\n"
       \o "    \"blockers_encountered\": [\"blocker1\", \"blocker2\", ...],\n"
       \o "    \"summary\": \"Detailed summary of what was accomplished and any remaining work\"\n"
       \o "}\n"
       \o "\n"
       \o "Focus on:\n"
       \o "- Using the provided analysis to guide your approach and avoid re-analyzing\n"
       \o "- Implementing working solutions that address the core problem identified in the analysis\n"
       \o "- Paying special attention to the key factors, blockers, and dependencies from the analysis\n"
       \o "- Testing your changes to ensure they work correctly\n"
       \o "- Creating a well-documented pull request if changes were made\n"
       \o "- Providing clear feedback on success/failure and any remaining blockers\n"
       \o "\n"
       \o "Be thorough in your implementation and testing. The analysis has already identified the scope and approach, so focus on execution rather than re-analysis.")

(***************************************************************************)
(* The functions of the classifier and of the rendering applied on their   *)
(* own: `given` names a function and its arguments, `computed` is what the *)
(* function returned.  No call of analyze_issue or resolve_issue is in     *)
(* progress meanwhile.                                                     *)
(***************************************************************************)
\* n comments
CommentsOf(n) == [i \in 1..n |-> Comment("ann", "same here")]

\* arguments of _categorize_issue
CategorizeInputs ==
    [fn : {"categorize_issue"},
     title : {"Crash on start", "Add dark mode", "Release 2", "Update the README guide",
              "Why is it so?", "Vulnerability in login", "Slow startup",
              "Optimize speed"},
     body : {"", "How to improve the docs?", "What does the guide say?"},
     labels : {<< >>, <<"bug">>, <<"Type: BUG">>, <<"needs-triage">>,
               <<"help wanted", "docs", "New Feature", "bug">>,
               <<"security-bug">>, <<"performance question">>, <<"Enhancement">>,
               <<"documentation">>, <<"question", "security">>,
               <<"perf", "Security", "feature">>}]

\* arguments of _assess_complexity
ComplexityInputs ==
    [fn : {"assess_complexity"},
     title : {"Crash on start", "Security review of the API change"},
     body : {"", Rep("x", 1000), Rep("x", 1001), "Refactor, refactor and REFACTOR",
             "architecture refactor breaking change api change database migration "
             \o "performance security integration compatibility cross-platform"},
     labels : {<< >>, <<"bug">>, <<"Major">>, <<"major", "needs-refactor">>,
               <<"breaking-change architecture">>},
     comments : {CommentsOf(10), CommentsOf(11)}]

\* arguments of _calculate_confidence_score
ConfidenceInputs ==
    [fn : {"calculate_confidence_score"},
     title : {"Crash on start"},
     body : {"", Rep("x", 49), Rep("x", 50), Rep("x", 200), Rep("x", 201),
             "cannot REPRODUCE", "reproduction steps unknown",
             "Steps to Reproduce: run it. Exception raised, see the stack trace.",
             Rep("x", 190) \o " error on save"},
     labels : {<<"bug">>},
     comments : {CommentsOf(0), CommentsOf(5), CommentsOf(6)},
     category : IssueCategory,
     complexity : ComplexityLevel]

\* arguments of _perform_analysis: the issues of the issue source, and one
\* without a category word, with four major-change labels and six comments
HeuristicInputs ==
    [fn : {"perform_analysis"},
     issue_data : Issues \cup
         {[number |-> 3, title |-> "Rework the core", body |-> JNull,
           labels |-> <<"major", "Major change", "breaking-change", "architecture">>,
           comment_details |-> CommentsOf(6)]}]

\* arguments of _estimate_effort
EffortInputs ==
    [fn : {"estimate_effort"},
     complexity : ComplexityLevel,
     category : IssueCategory,
     comment_count : {0, 10, 11, 40}]

\* arguments of the two prompt builders: comment i is by user i; the second
\* comment is 201 characters long, one body is 1001 characters long and one
\* has the warning sign as its characters 1000 and 1001.  The other comment
\* lists hold a comment without user, one without body, a posted analysis,
\* a comment with the warning sign as its characters 200 and 201, and
\* comments with null for the user, the login or the body
PromptInputs ==
    LET plain(i) == Comment("user" \o NatToStr(i),
                            IF i = 2 THEN Rep("y", 200) \o "Z" ELSE "note " \o NatToStr(i))
        args == [title : {"Slow search"},
                 body : {"", "Search got slow.", Rep("x", 1000) \o "W",
                         Rep("x", 999) \o EmojiWarning \o "W"},
                 labels : {<< >>, <<"bug", "ui">>},
                 comments : {[i \in 1..n |-> plain(i)] : n \in {0, 1, 2, 5, 6, 7}}
                            \cup {<<[body |-> "who wrote this"], plain(2)>>,
                                  <<[login |-> "ann"]>>,
                                  <<Comment("bot", PostedAnalysis)>>,
                                  <<Comment("bot", Rep("y", 199) \o EmojiWarning \o " slow")>>,
                                  <<plain(1), [body |-> "gone", nulls |-> {"user"}]>>,
                                  <<[login |-> "ann", nulls |-> {"body"}], plain(2)>>,
                                  <<[body |-> "hm", nulls |-> {"login"}]>>,
                                  [i \in 1..6 |->
                                      IF i = 6 THEN [body |-> "late", nulls |-> {"user"}]
                                      ELSE plain(i)]}]
    IN {[fn |-> f, args |-> a] :
           f \in {"create_analysis_prompt", "create_resolution_prompt"}, a \in args}

\* the issues _fetch_devin_analysis_from_comments is called for, as the issue
\* source holds them, with their comments in fetch order
LookupInputs ==
    LET ann == Comment("ann", "Is there a Devin analysis? Results welcome.")
        posted == Comment("bot", PostedAnalysis)
        edited == Comment("bot", EditedAnalysis)
    IN {[fn |-> "fetch_devin_analysis_from_comments",
         remote_issue |-> [number |-> 2, title |-> "Slow search", body |-> JNull,
                           labels |-> << >>, comment_details |-> comments]] :
          comments \in {<< >>, <<ann>>, <<ann, ann>>, <<posted>>, <<posted, edited>>,
                        <<edited, posted>>, <<posted, ann>>,
                        <<ann, edited, ann, posted, ann>>}}

\* the list fields of an Analysis
ListFields ==
    {[key_factors |-> << >>, blockers |-> << >>, dependencies |-> << >>],
     [key_factors |-> <<"Performance implications", "Breaking change">>,
      blockers |-> <<"Has dependencies">>, dependencies |-> <<"Issue #12">>],
     [key_factors |-> <<"Testing requirements">>, blockers |-> << >>,
      dependencies |-> << >>]}

\* arguments of format_analysis
FormatInputs ==
    {[fn |-> "format_analysis",
      analysis |-> Analysis(7, title, category, complexity, 85, 8,
                            JList(<< >>), JList(<< >>), JList(<< >>),
                            JStr("Categorized as " \o category \o "."))] :
        title \in {"Slow search", "Wrong Category: label shown"},
        category \in IssueCategory, complexity \in ComplexityLevel}
    \cup
    {[fn |-> "format_analysis",
      analysis |-> Analysis(7, "Slow search", "bug", "MODERATE", confidence, effort,
                            JList(lists.key_factors), JList(lists.blockers),
                            JList(lists.dependencies), JStr("Categorized as bug."))] :
        confidence \in {10, 12, 50, 99, 100}, effort \in {0, 1, 52}, lists \in ListFields}

ClassifierInit ==
    /\ kind = "analyze"
    /\ entry = "api"
    /\ devin_token = FALSE
    /\ remote_issue = CHOOSE issue \in Issues : issue.number = 1
    /\ analysis_data = NoneV
    /\ NotStarted
    /\ given \in CategorizeInputs \cup ComplexityInputs \cup ConfidenceInputs
                 \cup EffortInputs \cup HeuristicInputs \cup FormatInputs
                 \cup PromptInputs \cup LookupInputs
    /\ computed = Pending

CategorizeIssue ==
    /\ given.fn = "categorize_issue"
    /\ computed = Pending
    /\ computed' = [tag |-> "category",
                    category |-> categorize_issue(given.title, given.body, given.labels)]
    /\ UNCHANGED <<orchestration, given>>

PerformAnalysis ==
    /\ given.fn = "perform_analysis"
    /\ computed = Pending
    /\ computed' = [tag |-> "analysis", analysis |-> perform_analysis(given.issue_data)]
    /\ UNCHANGED <<orchestration, given>>

\* the score is the local complexity_score, the level is what is returned
AssessComplexity ==
    /\ given.fn = "assess_complexity"
    /\ computed = Pending
    /\ computed' = [tag |-> "complexity",
                    score |-> complexity_score(given.title, given.body, given.labels,
                                               given.comments),
                    level |-> assess_complexity(given.title, given.body, given.labels,
                                                given.comments)]
    /\ UNCHANGED <<orchestration, given>>

CalculateConfidence ==
    /\ given.fn = "calculate_confidence_score"
    /\ computed = Pending
    /\ computed' = [tag |-> "confidence",
                    sum |-> confidence_sum(given.body, given.comments, given.category,
                                           given.complexity),
                    confidence_score |->
                        calculate_confidence_score(given.title, given.body, given.labels,
                                                   given.comments, given.category,
                                                   given.complexity)]
    /\ UNCHANGED <<orchestration, given>>

EstimateEffort ==
    /\ given.fn = "estimate_effort"
    /\ computed = Pending
    /\ computed' = [tag |-> "effort",
                    hours |-> estimate_effort(given.complexity, given.category,
                                              given.comment_count)]
    /\ UNCHANGED <<orchestration, given>>

CreateAnalysisPrompt ==
    /\ given.fn = "create_analysis_prompt"
    /\ computed = Pending
    /\ computed' = create_analysis_prompt(given.args.title, given.args.body,
                                          given.args.labels, given.args.comments,
                                          "o", "r", 7)
    /\ UNCHANGED <<orchestration, given>>

\* the analysis is the one resolve_issue_cli.py passes when none was found
CreateResolutionPrompt ==
    /\ given.fn = "create_resolution_prompt"
    /\ computed = Pending
    /\ computed' = create_resolution_prompt(given.args.title, given.args.body,
                                            given.args.labels, given.args.comments,
                                            "o", "r", 7, DefaultAnalysisData)
    /\ UNCHANGED <<orchestration, given>>

\* IssueResolver._fetch_devin_analysis_from_comments up to the answer to the
\* issue request of _fetch_issue_details: a failed request ends the lookup
\* with None, otherwise the comments are asked for
LookupIssueRequest ==
    /\ given.fn = "fetch_devin_analysis_from_comments"
    /\ computed = Pending
    /\ pc = "start"
    /\ github_requests' = github_requests + 1
    /\ \E issue_answer \in {"no answer", "error status", "ok"} :
        LET resp == IF issue_answer = "no answer" THEN TransportError
                    ELSE IF issue_answer = "error status" THEN HttpError(404)
                    ELSE HttpOk(given.remote_issue)
        IN IF RequestFails(resp)
           THEN /\ log' = log \cup {"error fetching issue"}
                /\ computed' = [tag |-> "lookup",
                                found |-> fetch_devin_analysis_from_comments(JNull)]
                /\ pc' = "done"
           ELSE /\ pc' = "fetch_comments"
                /\ UNCHANGED <<log, computed>>
    /\ UNCHANGED <<given, config, comments_answer, analysis_data, fetch_for, issue_data,
                   session, result, heuristic_calls, cause, command,
                   create_requests, status_requests, status_targets, checked_elapsed,
                   delay, created, observed>>

\* the rest of it: the answer to the comments request completes the issue,
\* and the comments are searched for the analysis
FetchDevinAnalysisFromComments ==
    /\ given.fn = "fetch_devin_analysis_from_comments"
    /\ pc = "fetch_comments"
    /\ github_requests' = github_requests + 1
    /\ \E comments_answered \in {"no answer", "error status", "ok"} :
        LET resp == IF comments_answered = "no answer" THEN TransportError
                    ELSE IF comments_answered = "error status" THEN HttpError(500)
                    ELSE HttpOk(given.remote_issue.comment_details)
            issue == IF resp.err THEN JNull
                     ELSE [given.remote_issue EXCEPT
                              !.comment_details = comments_of(resp, given.remote_issue)]
        IN /\ issue_data' = issue
           /\ log' = IF resp.err THEN log \cup {"error fetching issue"} ELSE log
           /\ computed' = [tag |-> "lookup",
                           found |-> fetch_devin_analysis_from_comments(issue)]
    /\ pc' = "done"
    /\ UNCHANGED <<given, config, comments_answer, analysis_data, fetch_for,
                   session, result, heuristic_calls, cause, command,
                   create_requests, status_requests, status_targets, checked_elapsed,
                   delay, created, observed>>

FormatAnalysis ==
    /\ given.fn = "format_analysis"
    /\ computed = Pending
    /\ computed' = [tag |-> "text", text |-> format_analysis(given.analysis)]
    /\ UNCHANGED <<orchestration, given>>

\* the rendered text is decoded by IssueResolver._parse_analysis_comment
ParseAnalysisComment ==
    /\ computed.tag = "text"
    /\ computed' = [tag |-> "decoded", text |-> computed.text,
                    data |-> parse_analysis_comment(computed.text)]
    /\ UNCHANGED <<orchestration, given>>

\* the methods that class IssueScoper defines
IssueScoperMethods ==
    {"__init__", "analyze_issue", "_fetch_issue_details", "_perform_analysis",
     "_categorize_issue", "_assess_complexity", "_calculate_confidence_score",
     "_estimate_effort", "_identify_key_factors", "_identify_blockers",
     "_identify_dependencies", "_generate_reasoning", "_analyze_with_devin_api",
     "_create_analysis_prompt", "_create_devin_session", "_wait_for_session_completion",
     "_parse_devin_analysis"}

\* scope_issue of scope_issue_cli.py from the lookup of an existing analysis
\* on, for an issue that has the rendered text among its comments: the
\* lookup is called on the IssueScoper, and where the class has no such
\* method the call raises AttributeError before any request is sent
ScopeIssue ==
    /\ computed.tag = "text"
    /\ computed' =
         [tag |-> "scoped", text |-> computed.text,
          existing |->
            IF "_fetch_devin_analysis_from_comments" \notin IssueScoperMethods
            THEN Raised("AttributeError")
            ELSE LET existing_analysis == parse_analysis_comment(computed.text)
                 IN IF existing_analysis = NoneV THEN NoneV
                    ELSE existing_analysis_obj(existing_analysis,
                                               given.analysis.issue_number)]
    /\ UNCHANGED <<orchestration, given>>

ClassifierNext ==
    \/ PerformAnalysis
    \/ CategorizeIssue
    \/ AssessComplexity
    \/ CalculateConfidence
    \/ EstimateEffort
    \/ CreateAnalysisPrompt
    \/ CreateResolutionPrompt
    \/ LookupIssueRequest
    \/ FetchDevinAnalysisFromComments
    \/ FormatAnalysis
    \/ ParseAnalysisComment
    \/ ScopeIssue

ClassifierSpec == ClassifierInit /\ [][ClassifierNext]_vars


(***************************************************************************)
(* Properties of the polling loops and of the two entry points.            *)
(***************************************************************************)
\* the value an orchestrator hands back when its session gave no result
FailureValue == IF kind = "resolve" THEN NoneV ELSE perform_analysis(issue_data)

\* the failures of a session between its creation and its decoding
PollingFailures == {"timeout", "transport", "expired", "no_payload"}

\* the outcomes of the decoding of a payload that was returned by the loop
DecodeOutcomes == {"", "decode", "decode_raised"}

\* the creation response holds a usable session id
CarriesSessionId(resp) ==
    /\ ~resp.err
    /\ resp.code < 400
    /\ resp.body.session_id.t = "str"
    /\ resp.body.session_id.s # ""

\* C1: in the resolution orchestrator a status answer 'finished' whose
\* structured_output is absent, null or empty ends the polling and the call
\* returns None; no ResolutionResult is built from the empty payload.
C1_FinishedWithoutPayloadFails ==
    (kind = "resolve" /\ observed.status = "finished"
        /\ observed.payload \in {"absent", "null", "empty"})
    => (pc = "done" /\ cause = "no_payload" /\ result = NoneV /\ heuristic_calls = 0)

C1_Witness ==
    /\ kind = "resolve" /\ pc = "done"
    /\ observed.status = "finished" /\ observed.payload = "empty"
    /\ result = NoneV /\ status_requests >= 2

\* C2 as stated: in both orchestrators the status answer 'finished' or
\* 'blocked' ends the polling, with the payload when there is one and with
\* the failure value when there is none.
C2_FinishedAndBlockedTerminal ==
    observed.status \in {"finished", "blocked"}
    => /\ pc \in {"parse", "done"}
       /\ observed.payload # "present" => (pc = "done" /\ result = FailureValue)

\* C2 amended: 'finished' ends the polling in both orchestrators: with the
\* payload when there is one, with the failure value when there is none, and
\* in the analysis orchestrator with an exception when the message envelope
\* is null or the message is null, a number or a boolean. 'blocked' ends the
\* polling in the resolution orchestrator only with a payload; without one
\* the loop sleeps and polls again. The analysis orchestrator does not test for 'blocked': on such an
\* answer it sleeps and polls again, unless the answer's enum is 'expired',
\* which ends the polling with the failure value.
C2_FinishedTerminalBlockedWithPayload ==
    /\ (observed.status = "finished" /\ observed.payload # "present")
       => IF kind = "analyze" /\ observed.payload \in {"null", "not iterable"}
          THEN pc = "done" /\ cause = "poll_raised" /\ result.tag = "raised"
          ELSE pc = "done" /\ cause = "no_payload" /\ result = FailureValue
    /\ (observed.payload = "present"
          /\ (observed.status = "finished"
                \/ (kind = "resolve" /\ observed.status = "blocked")))
       => /\ Truthy(wait_result)
          /\ pc = "parse" \/ (pc = "done" /\ cause \in DecodeOutcomes)
    /\ (kind = "resolve" /\ observed.status = "blocked" /\ observed.payload # "present")
       => pc = "sleep"
    /\ (kind = "analyze" /\ observed.status = "blocked")
       => IF observed.enum = "expired"
          THEN pc = "done" /\ cause = "expired" /\ result = FailureValue
          ELSE pc = "sleep"

C2_Witness ==
    /\ kind = "resolve" /\ pc = "sleep" /\ status_requests >= 1
    /\ observed.status = "blocked" /\ observed.payload = "empty"

\* C3: a status request is sent only after a loop check that finds the
\* elapsed time below max_wait_time; when the check finds it reached, the
\* call ends there with the failure value, after at most
\* max_wait_time / sleep status requests and with the one session it created.
C3_TimeoutStopsPolling ==
    /\ pc = "wait_request" => clock - start_time < max_wait_time(kind)
    /\ cause = "timeout"
       => /\ pc = "done"
          /\ clock - start_time >= max_wait_time(kind)
          /\ observed = NotObserved
          /\ result = FailureValue
          /\ "timed out" \in log
          /\ create_requests = 1
          /\ status_requests <= max_wait_time(kind) \div sleep_interval(kind)

C3_Witness ==
    /\ pc = "done" /\ cause = "timeout" /\ kind = "analyze"
    /\ status_requests = ScoperMaxWait \div ScoperSleep
    /\ clock - start_time >= ScoperMaxWait

\* C4 as stated: the value returned after a polling timeout differs from the
\* value returned after a transport failure, an expired session or a missing
\* payload.
C4_TimeoutOutcomeDistinct ==
    (pc = "done" /\ cause = "timeout")
    => \A why \in PollingFailures \ {"timeout"} : result # on_failure(kind, why, issue_data)

\* C4 amended: a polling timeout returns the same value as a transport
\* failure, an expired session and a missing payload (None from the
\* resolution orchestrator, the heuristic Analysis from the analysis
\* orchestrator); only the printed message tells the timeout apart. A null
\* status or message envelope in the analysis orchestrator is no such
\* failure: it leaves the call as an exception, without that message.
C4_TimeoutToldByMessageOnly ==
    /\ (pc = "done" /\ cause \in PollingFailures)
       => /\ result = FailureValue
          /\ "timed out" \in log <=> cause = "timeout"
    /\ (pc = "done" /\ cause = "poll_raised")
       => /\ kind = "analyze"
          /\ result.tag = "raised"
          /\ result # FailureValue
          /\ "timed out" \notin log

C4_Witness ==
    /\ pc = "done" /\ cause = "timeout" /\ kind = "resolve"
    /\ result = NoneV /\ "timed out" \in log

\* C5: a resolution requested without the remote-agent credential sends no
\* request at all, neither to the issue source nor to the session endpoint.
C5_NoRequestWithoutCredential ==
    (kind = "resolve" /\ ~devin_token)
    => (github_requests = 0 /\ create_requests = 0 /\ status_requests = 0)

\* C6: every Analysis returned by analyze_issue has a confidence_score
\* within [1.0, 10.0] (10..100 tenths).
C6_ConfidenceInRange ==
    (kind = "analyze" /\ pc = "done" /\ result.tag = "Analysis")
    => result.confidence_score \in 10..100

\* C7: every category, complexity and execution_status that leaves a
\* decoder is a member of its fixed set.
C7_DecodedValuesInFixedSets ==
    /\ (pc = "done" /\ result.tag = "Analysis")
       => (result.category \in IssueCategory /\ result.complexity \in ComplexityLevel)
    /\ (pc = "done" /\ result.tag = "ResolutionResult")
       => result.execution_status \in ExecutionStatus
    /\ analysis_data.tag = "dict"
       => /\ analysis_data.category \in IssueCategory
          /\ analysis_data.complexity.level
               \in {Lower(ComplexityNames[v]) : v \in 1..5} \cup {"very complex"}
          /\ analysis_data.complexity.value \in 1..5

\* C8: on the resolution path every failure after the issue fetch returns
\* None, without the heuristic classifier and without a ResolutionResult.
C8_ResolutionFailuresReturnNone ==
    (kind = "resolve" /\ pc = "done" /\ create_requests = 1)
    => /\ heuristic_calls = 0
       /\ result.tag \in {"None", "ResolutionResult"}
       /\ cause # "" => result = NoneV

\* C9: with the credential and a fetched issue, analyze_issue returns the
\* heuristic Analysis whenever the session gives no usable message: when it
\* cannot be created, expires, times out, cannot be polled, or answers
\* without a usable message, a null envelope included.
C9_AnalysisFallsBackToHeuristic ==
    (kind = "analyze" /\ devin_token /\ pc = "done"
        /\ cause \in PollingFailures \cup {"create_failed", "poll_raised"})
    => /\ result.tag = "Analysis"
       /\ result = perform_analysis(issue_data)
       /\ heuristic_calls = 1

\* C10: when the session creation fails (transport error, HTTP error status,
\* or a response without a session id) no status request is sent.
C10_NoPollAfterFailedCreation ==
    (create_requests = 1 /\ ~CarriesSessionId(created))
    => (pc = "done" /\ cause = "create_failed" /\ status_requests = 0 /\ status_targets = {})

C10_Witness ==
    /\ create_requests = 1 /\ pc = "done" /\ status_requests = 0
    /\ created = HttpOk([session_id |-> JAbsent])

\* C11 as stated: a status answer 'expired' ends the polling at once and
\* the call reports failure.
C11_ExpiredReportsFailure ==
    observed.enum = "expired"
    => (pc = "done" /\ cause = "expired" /\ result = FailureValue)

\* C11 amended: a status answer 'expired' ends the polling at once, without
\* a sleep. The call then ends with the failure value, except in the
\* analysis orchestrator when the same answer says agent_status 'finished':
\* that answer is handled as a finished one, not as an expired one.
C11_ExpiredEndsPolling ==
    observed.enum = "expired"
    => /\ pc \in {"parse", "done"}
       /\ IF observed.status = "finished"
          THEN /\ kind = "analyze"
               /\ cause # "expired"
               /\ "session ended" \notin log
               /\ observed.payload = "present" <=> Truthy(wait_result)
          ELSE /\ pc = "done" /\ cause = "expired" /\ result = FailureValue
               /\ "session ended" \in log

\* an analysis whose session answered 'blocked' and 'expired' after a first
\* poll: the heuristic Analysis is returned
C11_Witness ==
    /\ kind = "analyze" /\ pc = "done" /\ cause = "expired"
    /\ observed.status = "blocked" /\ observed.enum = "expired"
    /\ status_requests >= 2 /\ result.tag = "Analysis"

\* C12: a status request that fails in transport or with an HTTP error
\* status ends the polling with the failure value; it is the last status
\* request and the call has created one session only.
C12_RequestFailureEndsPolling ==
    observed.status = "request failed"
    => /\ pc = "done" /\ cause = "transport"
       /\ result = FailureValue
       /\ create_requests = 1

C12_Witness ==
    /\ kind = "analyze" /\ pc = "done" /\ cause = "transport"
    /\ observed.status = "request failed" /\ status_requests >= 2

\* C13 as stated: when the request for the comments fails, in transport or
\* with a non-success status, the issue fetch returns None.
C13_FailedCommentsFailTheFetch ==
    (comments_answer.err \/ comments_answer.code \notin {0, 200})
    => issue_data = JNull

\* C13 amended: a transport failure of the comments request makes the fetch
\* return None; a non-success status does not: the fetch returns the issue
\* with an empty comment list; a 200 answer gives the comments it carries.
C13_CommentsStatusSwallowed ==
    /\ comments_answer.err => issue_data = JNull
    /\ (~comments_answer.err /\ comments_answer.code \notin {0, 200})
       => (issue_data # JNull /\ issue_data.comment_details = << >>)
    /\ comments_answer.code = 200
       => (issue_data # JNull
             /\ issue_data.comment_details = remote_issue.comment_details)

C13_Witness ==
    /\ comments_answer = HttpError(500)
    /\ remote_issue.comment_details # << >>
    /\ issue_data # JNull /\ issue_data.comment_details = << >>

\* C14: every status request but the first follows a sleep of the fixed
\* interval, so the elapsed time is at least interval times the requests
\* sent; the loop test then allows at most max_wait_time / interval
\* requests (30 and 60), and a call that has ended has a result.
C14_PollingBounded ==
    LET interval == IF kind = "analyze" THEN 10 ELSE 30
        budget == IF kind = "analyze" THEN 300 ELSE 1800
        most == IF kind = "analyze" THEN 30 ELSE 60
    IN /\ status_requests <= most
       /\ pc = "wait_check" => clock - start_time >= status_requests * interval
       /\ pc = "wait_request"
          => /\ checked_elapsed >= status_requests * interval
             /\ checked_elapsed < budget
       /\ pc = "sleep" => clock - start_time >= (status_requests - 1) * interval
       /\ pc = "done" => result # Pending

C14_Witness ==
    /\ kind = "resolve" /\ pc = "parse"
    /\ status_requests = ResolverMaxWait \div ResolverSleep
    /\ Truthy(wait_result)

(***************************************************************************)
(* Properties of the rendering and of the heuristic classifier             *)
(* (ClassifierSpec).                                                       *)
(***************************************************************************)
\* C15: for every Analysis, decoding the text that format_analysis renders
\* for it with the comment decoder yields the same category, the same
\* complexity level name and numeric value, the same confidence_score and
\* the same estimated_effort_hours.
C15_ScalarFieldsRoundTrip ==
    computed.tag = "decoded" =>
        /\ computed.data.tag = "dict"
        /\ computed.data.category = given.analysis.category
        /\ computed.data.complexity.level = Lower(given.analysis.complexity)
        /\ computed.data.complexity.value = ComplexityValue(given.analysis.complexity)
        /\ computed.data.confidence_score = given.analysis.confidence_score
        /\ computed.data.estimated_effort_hours = given.analysis.estimated_effort_hours

\* C16: for every Analysis, decoding the text that format_analysis renders
\* for it with the comment decoder yields key_factors, blockers and
\* dependencies equal to the original lists, entry for entry and in the same
\* order (an empty list decodes to an empty list).
C16_ListFieldsRoundTrip ==
    computed.tag = "decoded" =>
        /\ computed.data.tag = "dict"
        /\ computed.data.key_factors = given.analysis.key_factors.l
        /\ computed.data.blockers = given.analysis.blockers.l
        /\ computed.data.dependencies = given.analysis.dependencies.l

\* C17: the heuristic confidence is 7.0 plus the category adjustment (bug
\* +0.5, documentation +1.0, feature -0.5, enhancement -0.3, question +1.5,
\* security -1.0, unknown -1.5, others 0) plus the complexity adjustment
\* (trivial +2.0, simple +1.0, moderate 0, complex -1.5, very_complex -3.0),
\* +0.5 for a body longer than 200, -1.0 for a body shorter than 50, -0.3 for
\* more than 5 comments, +0.8 for a body that says 'reproduce', +0.5 for a
\* body that says error, exception or stack trace, clamped to [1.0, 10.0];
\* a bug with an empty body, trivial complexity and at most 5 comments gets
\* 8.5.  Numbers are tenths.
C17_ConfidenceFormula ==
    computed.tag = "confidence" =>
        LET by_category == [bug |-> 5, documentation |-> 10, feature |-> -5,
                            enhancement |-> -3, question |-> 15, security |-> -10,
                            unknown |-> -15, maintenance |-> 0, performance |-> 0]
            by_complexity == [TRIVIAL |-> 20, SIMPLE |-> 10, MODERATE |-> 0,
                              COMPLEX |-> -15, VERY_COMPLEX |-> -30]
            said == Lower(given.body)
            total == 70 + by_category[given.category] + by_complexity[given.complexity]
                     + (IF Len(given.body) > 200 THEN 5 ELSE 0)
                     + (IF Len(given.body) < 50 THEN -10 ELSE 0)
                     + (IF Len(given.comments) > 5 THEN -3 ELSE 0)
                     + (IF Contains(said, "reproduce") THEN 8 ELSE 0)
                     + (IF Contains(said, "error") \/ Contains(said, "exception")
                           \/ Contains(said, "stack trace") THEN 5 ELSE 0)
        IN /\ computed.confidence_score =
                  (IF total < 10 THEN 10 ELSE IF total > 100 THEN 100 ELSE total)
           /\ given.category = "bug" /\ given.body = "" /\ given.complexity = "TRIVIAL"
                 /\ Len(given.comments) <= 5
              => computed.confidence_score = 85

\* the confidence of a bug with an empty body, trivial complexity and five
\* comments has been calculated
C17_Witness ==
    /\ computed.tag = "confidence"
    /\ given.category = "bug"
    /\ given.body = ""
    /\ given.complexity = "TRIVIAL"
    /\ Len(given.comments) = 5
    /\ computed.confidence_score = 85

\* C18: the heuristic complexity score is 1 for a body longer than 1000, plus
\* 1 for more than 10 comments, plus the number of distinct complexity
\* keywords present in title and body (each counted once), plus 2 for each
\* label that matches the major-change keyword set; the score maps to a level
\* as 0-1 trivial, 2 simple, 3-4 moderate, 5-6 complex, 7 or more
\* very_complex.
C18_ComplexityScoreAndLevel ==
    computed.tag = "complexity" =>
        LET said == Lower(given.title \o " " \o given.body)
            keywords == {"architecture", "refactor", "breaking change", "api change",
                         "database", "migration", "performance", "security",
                         "integration", "compatibility", "cross-platform"}
            major == {"breaking-change", "architecture", "refactor", "major"}
            present == {k \in keywords : Contains(said, k)}
            matching == {i \in 1..Len(given.labels) :
                            \E m \in major : Contains(Lower(given.labels[i]), m)}
            total == (IF Len(given.body) > 1000 THEN 1 ELSE 0)
                     + (IF Len(given.comments) > 10 THEN 1 ELSE 0)
                     + Cardinality(present) + 2 * Cardinality(matching)
        IN /\ computed.score = total
           /\ computed.score \in 0..1 <=> computed.level = "TRIVIAL"
           /\ computed.score = 2 <=> computed.level = "SIMPLE"
           /\ computed.score \in 3..4 <=> computed.level = "MODERATE"
           /\ computed.score \in 5..6 <=> computed.level = "COMPLEX"
           /\ computed.score >= 7 <=> computed.level = "VERY_COMPLEX"

\* an issue whose score is exactly 7 has been assessed: two keywords in the
\* title, one in the body, two major-change labels
C18_Witness ==
    /\ computed.tag = "complexity"
    /\ given.title = "Security review of the API change"
    /\ given.body = "Refactor, refactor and REFACTOR"
    /\ Len(given.labels) = 2
    /\ Len(given.comments) = 10
    /\ computed.score = 7
    /\ computed.level = "VERY_COMPLEX"

\* C19: when some label contains a category keyword (case-insensitive
\* substring), the category is decided by the labels alone, whatever title
\* and body say: it is that of the first label, in the order supplied, which
\* contains a keyword, and within that label of the first keyword in the
\* table order bug, feature, enhancement, documentation, question, security,
\* performance.
C19_LabelsDecideCategory ==
    computed.tag = "category" =>
        LET table == <<"bug", "feature", "enhancement", "documentation", "question",
                       "security", "performance">>
            found(label) == {k \in 1..7 : Contains(Lower(label), table[k])}
            labelled == {i \in 1..Len(given.labels) : found(given.labels[i]) # {}}
        IN labelled # {} =>
              LET first == CHOOSE i \in labelled : \A j \in labelled : i <= j
                  keyword == CHOOSE k \in found(given.labels[first]) :
                                 \A j \in found(given.labels[first]) : k <= j
              IN computed.category = table[keyword]

\* an issue whose title says 'crash' and whose second label is the first one
\* with a keyword has been categorized by that label
C19_Witness ==
    /\ computed.tag = "category"
    /\ given.title = "Crash on start"
    /\ given.labels = <<"perf", "Security", "feature">>
    /\ computed.category = "security"

(***************************************************************************)
(* Properties of the payload decoders inside a call (Spec).                *)
(***************************************************************************)
\* the number a conversion gave, or the default where it gave none
NumberOr(converted, default) == IF converted.ok THEN converted.n ELSE default

\* a list field as sent, or the empty list where it is missing or null
ListOrEmpty(v) == IF v.t \in {"absent", "null"} THEN JList(<< >>) ELSE v

\* the JSON object between the first '{' and the last '}' of the message the
\* analysis session returned, JNull where there is none
MessageObject ==
    LET first == FindFirst(wait_result.s, "{")
        last == FindLast(wait_result.s, "}")
        loaded == JsonLoads(SubSeq(wait_result.s, first, last))
    IN IF first # 0 /\ last # 0 /\ loaded.ok THEN loaded.value ELSE JNull

\* C21: decoding the agent's message never raises: whenever the message
\* yields no Analysis of its own (no braces, braces in the wrong order,
\* invalid JSON, a confidence or effort value that is non-numeric or null),
\* _parse_devin_analysis returns the heuristic classifier's Analysis.
C21_DecodingNeverRaises ==
    (kind = "analyze" /\ pc = "done" /\ cause \in {"decode", "decode_raised"})
    => result = perform_analysis(issue_data)

\* C22: in a decoded result a missing or invalid confidence_score is 5.0, a
\* missing or invalid estimated_effort_hours is 8, a missing or invalid
\* success_score is 5.0 and a missing or null list field is the empty list,
\* while the other fields are those decoded from the same payload.
C22_DefaultsFieldByField ==
    /\ (kind = "analyze" /\ pc = "done" /\ cause \in DecodeOutcomes /\ MessageObject # JNull)
       => LET d == MessageObject.f
          IN /\ result.tag = "Analysis"
             /\ result.category = decode_category(d.category)
             /\ result.complexity = decode_complexity(d.complexity)
             /\ result.confidence_score = NumberOr(ToFloat(d.confidence_score), 50)
             /\ result.estimated_effort_hours = NumberOr(ToInt(d.estimated_effort_hours), 8)
             /\ result.key_factors = ListOrEmpty(d.key_factors)
             /\ result.blockers = ListOrEmpty(d.blockers)
             /\ result.dependencies = ListOrEmpty(d.dependencies)
    /\ (kind = "resolve" /\ pc = "done" /\ cause \in DecodeOutcomes /\ wait_result.t = "obj")
       => LET d == wait_result.f
          IN /\ result.tag = "ResolutionResult"
             /\ result.execution_status = decode_execution_status(d.execution_status)
             /\ result.success_score = NumberOr(ToFloat(d.success_score), 50)
             /\ result.action_plan = ListOrEmpty(d.action_plan)
             /\ result.changes_made = ListOrEmpty(d.changes_made)
             /\ result.blockers_encountered = ListOrEmpty(d.blockers_encountered)

(***************************************************************************)
(* Further properties of the heuristic classifier (ClassifierSpec).        *)
(***************************************************************************)
\* C23: when no label contains a category keyword, the category is that of
\* the first keyword set, in the order bug, feature, enhancement,
\* documentation, question, security, performance, that has a keyword in the
\* lower-cased title and body; when no set has one it is unknown.
C23_TextDecidesInFixedOrder ==
    computed.tag = "category" =>
        LET table == <<"bug", "feature", "enhancement", "documentation", "question",
                       "security", "performance">>
            words == <<{"bug", "error", "crash", "broken", "fail", "issue"},
                       {"feature", "add", "implement", "new"},
                       {"improve", "enhance", "better", "optimize"},
                       {"document", "readme", "docs", "guide"},
                       {"question", "how", "why", "what", "?"},
                       {"security", "vulnerability", "exploit"},
                       {"performance", "slow", "speed", "optimize"}>>
            said == Lower(given.title \o " " \o given.body)
            labelled == {i \in 1..Len(given.labels) :
                            \E k \in 1..7 : Contains(Lower(given.labels[i]), table[k])}
            satisfied == {k \in 1..7 : \E w \in words[k] : Contains(said, w)}
        IN labelled = {} =>
              computed.category =
                  (IF satisfied = {} THEN "unknown"
                   ELSE table[CHOOSE k \in satisfied : \A j \in satisfied : k <= j])

\* an issue without a category label whose text has a documentation word and
\* a question word has been categorized as documentation
C23_Witness ==
    /\ computed.tag = "category"
    /\ given.labels = <<"needs-triage">>
    /\ given.title = "Release 2"
    /\ given.body = "What does the guide say?"
    /\ computed.category = "documentation"

\* C24: the heuristic effort is the base hours of the level (1, 3, 8, 20,
\* 40), replaced by max(1, base // 2) for documentation, by trunc(base * 1.5)
\* for security, by trunc(base * 1.2) for feature, and then by
\* trunc(hours * 1.3) when there are more than 10 comments; it is an integer
\* of at least 1.
C24_EffortFormula ==
    computed.tag = "effort" =>
        LET base == [TRIVIAL |-> 1, SIMPLE |-> 3, MODERATE |-> 8, COMPLEX |-> 20,
                     VERY_COMPLEX |-> 40][given.complexity]
            halved == IF base \div 2 < 1 THEN 1 ELSE base \div 2
            hours == CASE given.category = "documentation" -> halved
                       [] given.category = "security" -> (base * 15) \div 10
                       [] given.category = "feature" -> (base * 12) \div 10
                       [] OTHER -> base
        IN /\ computed.hours =
                  (IF given.comment_count > 10 THEN (hours * 13) \div 10 ELSE hours)
           /\ computed.hours \in Nat
           /\ computed.hours >= 1

\* the effort of a moderate feature with 11 comments has been estimated:
\* trunc(8 * 1.2) = 9, trunc(9 * 1.3) = 11
C24_Witness ==
    /\ computed.tag = "effort"
    /\ given.complexity = "MODERATE"
    /\ given.category = "feature"
    /\ given.comment_count = 11
    /\ computed.hours = 11

\* C30: the confidence sum before the clamp is at least 1.2, and is 1.2 only
\* for category unknown, very_complex, a body shorter than 50 characters and
\* more than 5 comments; the lower clamp at 1.0 therefore never determines
\* the result, and every heuristic confidence_score lies in [1.2, 10.0].
\* Numbers are tenths.
C30_LowerClampNeverActs ==
    /\ computed.tag = "confidence" =>
          /\ computed.sum >= 12
          /\ computed.sum = 12 =>
                /\ given.category = "unknown"
                /\ given.complexity = "VERY_COMPLEX"
                /\ Len(given.body) < 50
                /\ Len(given.comments) > 5
          /\ computed.confidence_score = (IF computed.sum > 100 THEN 100 ELSE computed.sum)
          /\ computed.confidence_score \in 12..100
    /\ computed.tag = "analysis" => computed.analysis.confidence_score \in 12..100

\* an issue with no category word, four major-change labels, no body and six
\* comments has been classified: unknown, very_complex, confidence 1.2
C30_Witness ==
    /\ computed.tag = "analysis"
    /\ given.issue_data.number = 3
    /\ computed.analysis.category = "unknown"
    /\ computed.analysis.complexity = "VERY_COMPLEX"
    /\ computed.analysis.confidence_score = 12

(***************************************************************************)
(* Properties of the prompts (ClassifierSpec).                             *)
(***************************************************************************)
\* the line a prompt holds for a comment: its author and its body cut to 200
CommentLine(comment) ==
    "- " \o login_shown(comment) \o ": "
    \o Cut(IF "body" \in DOMAIN comment THEN comment.body ELSE "", 200)
    \o "..."

\* where the line of a comment starts in the prompt, 0 when it is not there
LineAt(prompt, comment) ==
    LET at == Occ(prompt, CommentLine(comment))
    IN IF at = {} THEN 0 ELSE MinOf(at)

\* the prompt names the author of the comment
Quotes(prompt, comment) == Contains(prompt, "- " \o login_shown(comment) \o ": ")

\* the body is in the prompt cut to 1000 characters, each comment body that is
\* quoted is cut to 200 characters
BodiesCut ==
    /\ Contains(computed.prompt, "Description:\n" \o Cut(given.args.body, 1000) \o "...")
    /\ Cut(given.args.body, 1001) # Cut(given.args.body, 1000)
       => ~Contains(computed.prompt, Cut(given.args.body, 1001))
    /\ \A i \in 1..Len(given.args.comments) :
          LET comment == given.args.comments[i]
          IN ("body" \in DOMAIN comment /\ Cut(comment.body, 201) # Cut(comment.body, 200))
             => ~Contains(computed.prompt, Cut(comment.body, 201))

\* C25: the prompt built for a remote session holds at most 5 of the issue's
\* comments; these are the 5 most recent ones, listed newest first, each cut
\* to 200 characters, and the issue body is cut to 1000 characters.
C25_PromptHoldsLatestComments ==
    computed.tag = "prompt" =>
        LET comments == given.args.comments
            n == Len(comments)
            latest == {i \in 1..n : i > n - 5}
        IN /\ \A i \in 1..n : Quotes(computed.prompt, comments[i]) <=> i \in latest
           /\ \A i \in latest : LineAt(computed.prompt, comments[i]) > 0
           /\ \A i, j \in latest :
                 i < j => LineAt(computed.prompt, comments[j])
                          < LineAt(computed.prompt, comments[i])
           /\ BodiesCut

\* C25 as the code has it: the prompt holds the first 5 comments in fetch
\* order, listed in that order (on the issue source the oldest ones, oldest
\* first), each cut to 200 characters, and the issue body cut to 1000
\* characters.
C25_PromptHoldsFirstComments ==
    computed.tag = "prompt" =>
        LET comments == given.args.comments
            n == Len(comments)
            first == {i \in 1..n : i <= 5}
        IN /\ \A i \in 1..n : Quotes(computed.prompt, comments[i]) <=> i \in first
           /\ \A i \in first : LineAt(computed.prompt, comments[i]) > 0
           /\ \A i, j \in first :
                 i < j => LineAt(computed.prompt, comments[i])
                          < LineAt(computed.prompt, comments[j])
           /\ BodiesCut

\* a resolution prompt has been built for an issue with seven comments and
\* a body of 1001 characters: it quotes the first comment and not the seventh
C25_Witness ==
    /\ computed.tag = "prompt"
    /\ given.fn = "create_resolution_prompt"
    /\ Len(given.args.comments) = 7
    /\ Len(given.args.body) = 1001
    /\ Quotes(computed.prompt, given.args.comments[1])
    /\ ~Quotes(computed.prompt, given.args.comments[7])

(***************************************************************************)
(* Properties of the analysis lookup (ClassifierSpec).                     *)
(***************************************************************************)
\* C26: _fetch_devin_analysis_from_comments returns the decoding of the most
\* recent comment, the last one in fetch order, that carries the analysis
\* marker, whatever the comments before it hold; when no comment carries the
\* marker, or the issue could not be fetched, it returns None.
C26_LatestMarkedCommentDecoded ==
    computed.tag = "lookup" =>
      IF issue_data = JNull THEN computed.found = NoneV
      ELSE
        LET comments == issue_data.comment_details
            marked == {i \in 1..Len(comments) :
                          Contains(comments[i].body, "<robot> Devin Analysis Results")}
        IN IF marked = {} THEN computed.found = NoneV
           ELSE \E last \in marked :
                   /\ \A i \in marked : i <= last
                   /\ computed.found = parse_analysis_comment(comments[last].body)

\* the lookup fetched an issue whose posted analysis is followed by an edited
\* one: the edited one was decoded
C26_Witness ==
    /\ computed.tag = "lookup"
    /\ github_requests = 2
    /\ issue_data # JNull
    /\ Len(issue_data.comment_details) = 2
    /\ issue_data.comment_details[1].body = PostedAnalysis
    /\ issue_data.comment_details[2].body = EditedAnalysis
    /\ computed.found # NoneV
    /\ computed.found.category = "tech debt"

(***************************************************************************)
(* Properties of the polling loops on a failed session (Spec).             *)
(***************************************************************************)
\* C27: a status answer reporting the session status 'failed' ends the
\* polling at once, as 'expired' does: the loop does not go to sleep on it
\* to send another status request for that session.
C27_FailedEndsPolling ==
    observed.enum = "failed" => pc \in {"parse", "done"}

(***************************************************************************)
(* Properties of the rendering followed by the decoding and the rebuilding *)
(* of the scoping command line (ClassifierSpec).                           *)
(***************************************************************************)
\* C28: for each of the five complexity levels, an Analysis rendered by
\* format_analysis, decoded by the comment decoder and rebuilt by the
\* existing-analysis branch of the scoping command line has the complexity
\* level of the original Analysis.
C28_ComplexityLevelSurvives ==
    computed.tag = "scoped"
    => /\ computed.existing.tag = "Analysis"
       /\ computed.existing.complexity = given.analysis.complexity

(***************************************************************************)
(* Properties of the session a call owns (Spec).                           *)
(***************************************************************************)
\* C29: one analyze_issue or resolve_issue call creates at most one remote
\* session, creates it only after its own issue fetch returned the issue,
\* and sends every status request for the session id that the creation
\* answered.
C29_OneSessionPerCall ==
    /\ create_requests <= 1
    /\ create_requests = 1
       => (fetch_for = "call" /\ issue_data # JNull /\ github_requests >= 2)
    /\ status_requests > 0
       => /\ create_requests = 1
          /\ CarriesSessionId(created)
          /\ status_targets = {created.body.session_id.s}

\* a resolution that created its session and polled it more than once
C29_Witness ==
    /\ kind = "resolve" /\ pc = "done"
    /\ issue_data # JNull
    /\ create_requests = 1 /\ status_requests >= 2
    /\ created = HttpOk([session_id |-> JStr("devin-1")])
    /\ status_targets = {"devin-1"}

====
